---- MODULE Spec2Model ----
(***************************************************************************)
(* A model of the nightreign-overlay-helper desktop companion:             *)
(*   - the Map Overlay window (src/src/ui/map_overlay.py): sparse          *)
(*     MapOverlayUIState patches, paging, opacity easing and visibility;   *)
(*   - the capture-space to display-space conversion (src/src/ui/utils.py);*)
(*   - the application bootstrap and shutdown sequence (src/src/app.py).   *)
(*                                                                         *)
(* Python's None is the empty tuple and a present value v is <<v>>.        *)
(* Opacities are exact rationals written as integers in units of 1/Scale.  *)
(***************************************************************************)
EXTENDS Integers, Sequences, FiniteSets, TLC

VARIABLES widget, window, last, app, detector, ci

vars == <<widget, window, last, app, detector, ci>>

----------------------------------------------------------------------------
(* Optional values *)

None == <<>>

Some(v) == <<v>>

IsNone(o) == o = None

Val(o) == o[1]

----------------------------------------------------------------------------
(* Bounds of the model *)

\* longest overlay image list a patch carries
MaxImages == 2

\* number of pre-rendered crystal layout images (entries of data['patterns'])
NumCrystalLayouts == 3

----------------------------------------------------------------------------
(* Opacity arithmetic.  One unit is 1/Scale; Scale is a multiple of 100    *)
(* (the 0.01 threshold is a whole number of units) and of 5^6 (six easing  *)
(* steps of a gap of at most 1 stay exact).                                *)

Scale == 100 * 15625

OpacityOne == Scale

OpacityHalf == Scale \div 2

OpacityQuarter == Scale \div 4

\* threshold = 0.01
Threshold == Scale \div 100

\* step = 0.6 = StepNum / StepDen
StepNum == 3

StepDen == 5

Abs(n) == IF n < 0 THEN -n ELSE n

----------------------------------------------------------------------------
(* Screens known to the QApplication: geometry in display space and the    *)
(* device pixel ratio RatioNum/RatioDen.                                   *)

Screens ==
  << [x |-> 0,  y |-> 0, w |-> 8, h |-> 6, num |-> 3, den |-> 2],
     [x |-> 20, y |-> 0, w |-> 8, h |-> 6, num |-> 1, den |-> 1] >>

\* int(a * num / den) and int(a / (num / den)) for a >= 0
MulRatio(a, s) == (a * s.num) \div s.den

DivRatio(a, s) == (a * s.den) \div s.num

OnScreen(region, s) ==
  /\ s.x <= region[1] /\ region[1] <= s.x + MulRatio(s.w, s)
  /\ s.y <= region[2] /\ region[2] <= s.y + MulRatio(s.h, s)

\* the index of the first screen holding the region's top-left corner, or 0
\* where the code raises ValueError
get_qt_screen_by_mss_region(region) ==
  LET hits == {i \in 1..Len(Screens) : OnScreen(region, Screens[i])}
  IN  IF hits = {} THEN 0 ELSE CHOOSE i \in hits : \A j \in hits : i <= j

mss_region_to_qt_region(region) ==
  LET s == Screens[get_qt_screen_by_mss_region(region)]
  IN  << s.x + DivRatio(region[1] - s.x, s),
         s.y + DivRatio(region[2] - s.y, s),
         DivRatio(region[3], s),
         DivRatio(region[4], s) >>

----------------------------------------------------------------------------
(* MapOverlayUIState: the sparse patch *)

EmptyPatch ==
  [ x |-> None, y |-> None, w |-> None, h |-> None,
    opacity |-> None, visible |-> None, overlay_images |-> None,
    display_crystal_layout |-> None, clear_image |-> FALSE,
    map_pattern_matching |-> None, map_pattern_match_time |-> None,
    only_show_when_game_foreground |-> None, is_game_foreground |-> None,
    is_menu_opened |-> None, is_setting_opened |-> None ]

\* the patch the constructor applies
InitPatch ==
  [EmptyPatch EXCEPT !.w = Some(10), !.h = Some(10),
                     !.opacity = Some(0), !.visible = Some(TRUE)]

----------------------------------------------------------------------------
(* MapOverlayWidget *)

\* the fields as __init__ assigns them, before it applies InitPatch
FieldDefaults ==
  [ map_pattern_idx |-> None,
    overlay_images |-> None,
    map_pattern_match_time |-> 0,
    map_pattern_matching |-> FALSE,
    crystal_layout_idx |-> None,
    target_opacity |-> OpacityOne,
    visible |-> TRUE,
    only_show_when_game_foreground |-> FALSE,
    is_game_foreground |-> FALSE,
    is_menu_opened |-> FALSE,
    is_setting_opened |-> FALSE ]

\* the toolkit's window before the program touches it: default geometry,
\* fully opaque, not shown
\* (the three caption labels are empty)
WindowDefaults ==
  [ geometry |-> <<0, 0, 64, 48>>, opacity |-> OpacityOne, shown |-> FALSE,
    map_pattern_label |-> None, crystal_layout_label |-> None,
    match_time_label |-> "" ]

\* mutant: an empty list is kept instead of being replaced by None
update_overlay_images_KeepEmpty(wd) == wd

update_overlay_images(wd) ==
  IF IsNone(wd.overlay_images) \/ Len(Val(wd.overlay_images)) = 0
  THEN [wd EXCEPT !.overlay_images = None]
  ELSE wd

\* mutant: the new images are appended to the ones shown
set_overlay_images_Appending(wd, imgs) ==
  update_overlay_images(
    [wd EXCEPT !.overlay_images =
                 IF IsNone(imgs) \/ IsNone(wd.overlay_images) THEN imgs
                 ELSE Some(Val(wd.overlay_images) \o Val(imgs)),
               !.map_pattern_idx = Some(0)])

set_overlay_images(wd, imgs) ==
  update_overlay_images(
    [wd EXCEPT !.overlay_images = imgs, !.map_pattern_idx = Some(0)])

\* mutant: the page index stops at the last page instead of wrapping
next_overlay_image_NoWrap(wd) ==
  IF wd.visible /\ ~IsNone(wd.overlay_images)
  THEN LET i == Val(wd.map_pattern_idx) + 1
           n == Len(Val(wd.overlay_images))
       IN  update_overlay_images(
             [wd EXCEPT !.map_pattern_idx =
                IF i >= n THEN Some(n - 1) ELSE Some(i)])
  ELSE wd

\* mutant: the visible flag is not tested
next_overlay_image_Ungated(wd) ==
  IF ~IsNone(wd.overlay_images)
  THEN LET i == Val(wd.map_pattern_idx) + 1
       IN  update_overlay_images(
             [wd EXCEPT !.map_pattern_idx =
                IF i >= Len(Val(wd.overlay_images)) THEN Some(0) ELSE Some(i)])
  ELSE wd

next_overlay_image(wd) ==
  IF wd.visible /\ ~IsNone(wd.overlay_images)
  THEN LET i == Val(wd.map_pattern_idx) + 1
       IN  update_overlay_images(
             [wd EXCEPT !.map_pattern_idx =
                IF i >= Len(Val(wd.overlay_images)) THEN Some(0) ELSE Some(i)])
  ELSE wd

last_overlay_image(wd) ==
  IF wd.visible /\ ~IsNone(wd.overlay_images)
  THEN LET i == Val(wd.map_pattern_idx) - 1
       IN  update_overlay_images(
             [wd EXCEPT !.map_pattern_idx =
                IF i < 0 THEN Some(Len(Val(wd.overlay_images)) - 1) ELSE Some(i)])
  ELSE wd

\* mutant: the wrap test is > instead of >=
next_crystal_layout_OffByOne(wd) ==
  IF wd.visible /\ ~IsNone(wd.crystal_layout_idx)
  THEN LET i == Val(wd.crystal_layout_idx) + 1
       IN  [wd EXCEPT !.crystal_layout_idx =
              IF i > NumCrystalLayouts THEN Some(0) ELSE Some(i)]
  ELSE wd

next_crystal_layout(wd) ==
  IF wd.visible /\ ~IsNone(wd.crystal_layout_idx)
  THEN LET i == Val(wd.crystal_layout_idx) + 1
       IN  [wd EXCEPT !.crystal_layout_idx =
              IF i >= NumCrystalLayouts THEN Some(0) ELSE Some(i)]
  ELSE wd

last_crystal_layout(wd) ==
  IF wd.visible /\ ~IsNone(wd.crystal_layout_idx)
  THEN LET i == Val(wd.crystal_layout_idx) - 1
       IN  [wd EXCEPT !.crystal_layout_idx =
              IF i < 0 THEN Some(NumCrystalLayouts - 1) ELSE Some(i)]
  ELSE wd

----------------------------------------------------------------------------
(* update_ui_state, statement by statement *)

Region(p) == <<Val(p.x), Val(p.y), Val(p.w), Val(p.h)>>

\* the conversion raises ValueError: the region lies on no screen
GeometryRaises(p) ==
  ~IsNone(p.x) /\ get_qt_screen_by_mss_region(Region(p)) = 0

ApplyGeometry(win, p) ==
  IF ~IsNone(p.x)
  THEN [win EXCEPT !.geometry = mss_region_to_qt_region(Region(p))]
  ELSE win

ApplyOpacity(wd, p) ==
  IF ~IsNone(p.opacity)
  THEN [wd EXCEPT !.target_opacity = Val(p.opacity)]
  ELSE wd

ApplyVisible(wd, p) ==
  IF ~IsNone(p.visible) THEN [wd EXCEPT !.visible = Val(p.visible)] ELSE wd

\* mutant: the "is not None" test is missing
ApplyOverlayImages_Unguarded(wd, p) ==
  set_overlay_images(wd, p.overlay_images)

ApplyOverlayImages(wd, p) ==
  IF ~IsNone(p.overlay_images)
  THEN set_overlay_images(wd, p.overlay_images)
  ELSE wd

\* mutant: clear_image is an elif of the overlay_images test
ApplyClearImage_Elif(wd, p) ==
  IF p.clear_image /\ IsNone(p.overlay_images)
  THEN set_overlay_images(wd, None)
  ELSE wd

ApplyClearImage(wd, p) ==
  IF p.clear_image THEN set_overlay_images(wd, None) ELSE wd

ApplyGating(wd, p) ==
  LET a == IF ~IsNone(p.only_show_when_game_foreground)
           THEN [wd EXCEPT !.only_show_when_game_foreground =
                             Val(p.only_show_when_game_foreground)]
           ELSE wd
      b == IF ~IsNone(p.is_game_foreground)
           THEN [a EXCEPT !.is_game_foreground = Val(p.is_game_foreground)]
           ELSE a
      c == IF ~IsNone(p.is_menu_opened)
           THEN [b EXCEPT !.is_menu_opened = Val(p.is_menu_opened)]
           ELSE b
  IN  IF ~IsNone(p.is_setting_opened)
      THEN [c EXCEPT !.is_setting_opened = Val(p.is_setting_opened)]
      ELSE c

ApplyMatchIndicators(wd, p) ==
  LET a == IF ~IsNone(p.map_pattern_matching)
           THEN [wd EXCEPT !.map_pattern_matching = Val(p.map_pattern_matching)]
           ELSE wd
  IN  IF ~IsNone(p.map_pattern_match_time)
      THEN [a EXCEPT !.map_pattern_match_time = Val(p.map_pattern_match_time)]
      ELSE a

ApplyCrystalLayout(wd, p) ==
  IF ~IsNone(p.display_crystal_layout)
  THEN [wd EXCEPT !.crystal_layout_idx =
          IF Val(p.display_crystal_layout) THEN Some(0) ELSE None]
  ELSE wd

\* mutant: the geometry is converted after the other fields are assigned
update_ui_state_GeometryLast(wd, win, p) ==
  [ widget |->
      ApplyCrystalLayout(
        ApplyMatchIndicators(
          ApplyGating(
            ApplyClearImage(
              ApplyOverlayImages(
                ApplyVisible(
                  ApplyOpacity(wd, p), p), p), p), p), p), p),
    window |-> IF GeometryRaises(p) THEN win ELSE ApplyGeometry(win, p),
    raised |-> GeometryRaises(p) ]

\* The whole call.  raised = TRUE: the geometry conversion raised before any
\* field was assigned, and the exception left update_ui_state.
update_ui_state(wd, win, p) ==
  IF GeometryRaises(p)
  THEN [widget |-> wd, window |-> win, raised |-> TRUE]
  ELSE [widget |->
          ApplyCrystalLayout(
            ApplyMatchIndicators(
              ApplyGating(
                ApplyClearImage(
                  ApplyOverlayImages(
                    ApplyVisible(
                      ApplyOpacity(wd, p), p), p), p), p), p), p),
        window |-> ApplyGeometry(win, p),
        raised |-> FALSE]

----------------------------------------------------------------------------
(* timerEvent *)

\* mutant: the snap branch is missing
EaseOpacity_NoSnap(real, target) ==
  LET dlt == target - real
  IN  IF Abs(dlt) > Threshold
      THEN real + (dlt * StepNum) \div StepDen
      ELSE real

\* lines 320-330: ease the window opacity toward the target
EaseOpacity(real, target) ==
  LET dlt == target - real
  IN  IF Abs(dlt) > Threshold
      THEN real + (dlt * StepNum) \div StepDen
      ELSE IF 0 < Abs(dlt) /\ Abs(dlt) <= Threshold
           THEN target
           ELSE real

\* real_opacity > 0.01 (line 332)
VisibleOpacityMin == Scale \div 100

\* mutant: the settings window does not count
ComputeVisible_NoSettings(wd, real) ==
  LET visible == wd.visible /\ real > VisibleOpacityMin
  IN  IF wd.only_show_when_game_foreground
      THEN visible /\ (wd.is_game_foreground \/ wd.is_menu_opened)
      ELSE visible

\* lines 332-334: the visibility the tick decides
ComputeVisible(wd, real) ==
  LET visible == wd.visible /\ real > VisibleOpacityMin
  IN  IF wd.only_show_when_game_foreground
      THEN visible /\ (wd.is_game_foreground \/ wd.is_menu_opened
                         \/ wd.is_setting_opened)
      ELSE visible

\* lines 335-338: show() / hide()
ShowOrHide(shown, visible) ==
  IF visible /\ ~shown THEN TRUE
  ELSE IF ~visible /\ shown THEN FALSE
  ELSE shown

\* lines 290-318: the captions; a label is None (empty) or its numbers
MapPatternText(wd) ==
  IF ~IsNone(wd.overlay_images) /\ ~IsNone(wd.map_pattern_idx)
  THEN Some(<<Val(wd.map_pattern_idx) + 1, Len(Val(wd.overlay_images))>>)
  ELSE None

CrystalLayoutText(wd) ==
  IF ~IsNone(wd.crystal_layout_idx)
  THEN Some(<<Val(wd.crystal_layout_idx), NumCrystalLayouts - 1>>)
  ELSE None

MatchTimeText(wd) ==
  IF wd.map_pattern_matching THEN "matching"
  ELSE IF wd.map_pattern_match_time > 0 THEN "elapsed"
  ELSE ""

timerEvent(wd, win) ==
  LET real == EaseOpacity(win.opacity, wd.target_opacity)
  IN  [win EXCEPT !.map_pattern_label = MapPatternText(wd),
                  !.crystal_layout_label = CrystalLayoutText(wd),
                  !.match_time_label = MatchTimeText(wd),
                  !.opacity = real,
                  !.shown = ShowOrHide(win.shown, ComputeVisible(wd, real))]

----------------------------------------------------------------------------
(* Patches the environment sends *)

ImageLists == { [i \in 1..n |-> i] : n \in 0..MaxImages }

\* capture-space regions: one on the first screen, one on no screen
Regions == { <<3, 3, 6, 6>>, <<40, 0, 6, 6>> }

PatchOpacities == { 0, OpacityHalf }

MatchTimes == { 0, 7 }

GateFields ==
  { "only_show_when_game_foreground", "is_game_foreground",
    "is_menu_opened", "is_setting_opened" }

\* one field of a patch and its value ("region" stands for x, y, w, h)
GateEdits ==
  { <<f, Some(b)>> : f \in GateFields \cup {"visible"}, b \in BOOLEAN }

ContentEdits ==
  { <<"opacity", Some(v)>> : v \in PatchOpacities }
    \cup { <<"overlay_images", Some(l)>> : l \in ImageLists }
    \cup { <<"display_crystal_layout", Some(b)>> : b \in BOOLEAN }
    \cup { <<"clear_image", TRUE>> }
    \cup { <<"map_pattern_matching", Some(b)>> : b \in BOOLEAN }
    \cup { <<"map_pattern_match_time", Some(t)>> : t \in MatchTimes }
    \cup { <<"region", r>> : r \in Regions }

Edit(p, e) ==
  IF e[1] = "region"
  THEN [p EXCEPT !.x = Some(e[2][1]), !.y = Some(e[2][2]),
                 !.w = Some(e[2][3]), !.h = Some(e[2][4])]
  ELSE [p EXCEPT ![e[1]] = e[2]]

SinglePatches(edits) == { Edit(EmptyPatch, e) : e \in edits }

\* patches of two fields, one of them from edits and one from others
PairPatches(edits, others) ==
  { Edit(Edit(EmptyPatch, e), f) :
      <<e, f>> \in { ef \in edits \X others : ef[1][1] # ef[2][1] } }

\* the gating flags as the updater reports them together
GatePatch(only, fg, menu, setting) ==
  [EmptyPatch EXCEPT !.only_show_when_game_foreground = Some(only),
                     !.is_game_foreground = Some(fg),
                     !.is_menu_opened = Some(menu),
                     !.is_setting_opened = Some(setting)]

GateSnapshots ==
  { GatePatch(FALSE, FALSE, FALSE, FALSE), GatePatch(TRUE, TRUE, FALSE, FALSE),
    GatePatch(TRUE, FALSE, TRUE, FALSE), GatePatch(TRUE, FALSE, FALSE, TRUE) }

\* a detection result: the images, matching over, the match time
ResultPatches ==
  { [EmptyPatch EXCEPT !.overlay_images = Some(l),
                       !.map_pattern_matching = Some(FALSE),
                       !.map_pattern_match_time = Some(7)] : l \in ImageLists }

ImageEdits == { <<"overlay_images", Some(l)>> : l \in ImageLists }

\* clear_image together with an image list or a region
ClearPatches ==
  { Edit(q, <<"clear_image", TRUE>>) :
      q \in SinglePatches(ImageEdits \cup { <<"region", r>> : r \in Regions }) }

\* the patches the environment sends in Spec
EnvPatches ==
  {EmptyPatch}
    \cup SinglePatches(ContentEdits)
    \cup SinglePatches({ <<"visible", Some(b)>> : b \in BOOLEAN })
    \cup GateSnapshots
    \cup ResultPatches
    \cup ClearPatches

\* the edits whose statements do more than assign one field
StructuralEdits ==
  { e \in ContentEdits :
      e[1] \in {"overlay_images", "clear_image", "region", "display_crystal_layout"} }

\* the patches the claims quantify over: every patch of one field, every
\* patch of two fields one of which is structural, and the environment's
Patches ==
  SinglePatches(ContentEdits \cup GateEdits)
    \cup PairPatches(StructuralEdits, ContentEdits \cup GateEdits)
    \cup EnvPatches

\* the patches the environment sends in SpecPaging
PagingPatches ==
  SinglePatches(ImageEdits
                  \cup { <<"clear_image", TRUE>> }
                  \cup { <<f, Some(b)>> :
                           f \in {"visible", "display_crystal_layout"},
                           b \in BOOLEAN })
    \cup { Edit(q, <<"clear_image", TRUE>>) : q \in SinglePatches(ImageEdits) }

\* the patches the environment sends in SpecTick
GatePatches == SinglePatches(GateEdits)

----------------------------------------------------------------------------
(* The application (app.py).  app.pc is the main thread's position.  The   *)
(* widget and window variables hold what the constructor builds;           *)
(* app.constructed says whether the QApplication and the objects exist.    *)

\* largest exit code the event loop returns
MaxExitCode == 2

ExitCodes == 0..MaxExitCode

AppStart ==
  [ pc |-> "singleton_check",
    already_running |-> FALSE,   \* took the ERROR_ALREADY_EXISTS branch
    constructed |-> FALSE,
    input_thread |-> "unstarted",
    updater_thread |-> "unstarted",
    input_stop |-> FALSE,        \* input.stop() was called
    updater_stop |-> FALSE,      \* updater.stop() was called
    overlay_is_menu_opened |-> FALSE,
    updater_is_menu_opened |-> FALSE,
    quit_runs |-> 0,             \* times on_quit ran to its end
    saved |-> 0,                 \* times save_settings ran
    exec_raised |-> FALSE,
    exit_code |-> None,
    exit_status |-> None ]

\* the application once its event loop runs
AppRunning ==
  [AppStart EXCEPT !.pc = "exec", !.constructed = TRUE,
                   !.input_thread = "running", !.updater_thread = "running"]

----------------------------------------------------------------------------
(* The widget's operations as actions.  last names the operation that      *)
(* produced the state.                                                     *)

OnlyField(p, f) == p = [EmptyPatch EXCEPT ![f] = p[f]] /\ ~IsNone(p[f])

PatchKind(p, raised) ==
  IF raised THEN "rejected"
  ELSE IF OnlyField(p, "opacity") THEN "opacity_only"
  ELSE IF OnlyField(p, "overlay_images") THEN "images_only"
  ELSE IF /\ p.clear_image
          /\ ~IsNone(p.overlay_images)
          /\ Len(Val(p.overlay_images)) > 0 THEN "clear_with_images"
  ELSE "update_ui_state"

\* the Map Detector before a detection, the version script before a run
DetectorIdle == [ pc |-> "idle" ]

CiIdle == [ pc |-> "idle" ]

Constructed == update_ui_state(FieldDefaults, WindowDefaults, InitPatch)

Init ==
  /\ widget = Constructed.widget
  /\ window = Constructed.window
  /\ last = "init"
  /\ app = AppRunning
  /\ detector = DetectorIdle
  /\ ci = CiIdle

UpdateUiState(p) ==
  LET r == update_ui_state(widget, window, p)
  IN  /\ widget' = r.widget
      /\ window' = r.window
      /\ last' = PatchKind(p, r.raised)
      /\ UNCHANGED <<app, detector, ci>>

NextOverlayImage ==
  /\ widget' = next_overlay_image(widget)
  /\ last' = "next_overlay_image"
  /\ UNCHANGED <<window, app, detector, ci>>

LastOverlayImage ==
  /\ widget' = last_overlay_image(widget)
  /\ last' = "last_overlay_image"
  /\ UNCHANGED <<window, app, detector, ci>>

NextCrystalLayout ==
  /\ widget' = next_crystal_layout(widget)
  /\ last' = "next_crystal_layout"
  /\ UNCHANGED <<window, app, detector, ci>>

LastCrystalLayout ==
  /\ widget' = last_crystal_layout(widget)
  /\ last' = "last_crystal_layout"
  /\ UNCHANGED <<window, app, detector, ci>>

\* which branch of the easing a tick takes
TickKind(real, target) ==
  IF Abs(target - real) > Threshold THEN "timerEvent_ease"
  ELSE IF target # real THEN "timerEvent_snap"
  ELSE "timerEvent"

TimerEvent ==
  /\ window' = timerEvent(widget, window)
  /\ last' = TickKind(window.opacity, widget.target_opacity)
  /\ UNCHANGED <<widget, app, detector, ci>>

\* Spec: the patches the environment sends, and paging forward through the
\* match results
ApplyPatch == \E p \in EnvPatches : UpdateUiState(p)

Next ==
  \/ ApplyPatch
  \/ NextOverlayImage

Spec == Init /\ [][Next]_vars

\* SpecPaging: the four paging operations between the patches that change
\* what is paged
ApplyPagingPatch == \E p \in PagingPatches : UpdateUiState(p)

NextPaging ==
  \/ ApplyPagingPatch
  \/ NextOverlayImage
  \/ LastOverlayImage
  \/ NextCrystalLayout
  \/ LastCrystalLayout

SpecPaging == Init /\ [][NextPaging]_vars

\* SpecTick: the 50 ms timer between patches of the visible flag and the
\* gating flags.  The window starts hidden at any of TickOpacities, the
\* target is any of TickTargets and stays fixed; the timer keeps firing.
TickOpacities == { 0, Threshold, OpacityQuarter, OpacityHalf, OpacityOne }

TickTargets == { 0, OpacityHalf, OpacityOne }

InitTick ==
  /\ \E t \in TickTargets :
       widget = [Constructed.widget EXCEPT !.target_opacity = t]
  /\ \E r \in TickOpacities :
       window = [Constructed.window EXCEPT !.opacity = r]
  /\ last = "init"
  /\ app = AppRunning
  /\ detector = DetectorIdle
  /\ ci = CiIdle

ApplyGatePatch == \E p \in GatePatches : UpdateUiState(p)

NextTick ==
  \/ TimerEvent
  \/ ApplyGatePatch

SpecTick == InitTick /\ [][NextTick]_vars /\ WF_vars(TimerEvent)

----------------------------------------------------------------------------
(* app.py's main thread, its event handlers and the two worker threads *)

At(pc) == app.pc = pc

\* lines 65-67 and 77-78: CreateMutex returns, the mutex new or already
\* there, or raises, which the handler logs before startup goes on
CreateMutex ==
  /\ At("singleton_check")
  /\ \E outcome \in {"created", "already_exists", "raised"} :
       app' = CASE outcome = "created" -> [app EXCEPT !.pc = "construct"]
                [] outcome = "already_exists" ->
                     [app EXCEPT !.pc = "find_window", !.already_running = TRUE]
                [] outcome = "raised" -> [app EXCEPT !.pc = "construct"]
  /\ UNCHANGED <<widget, window, last, detector, ci>>

\* lines 69-70, 74-75 and 77-78: FindWindow returns a handle or 0, or raises
FindWindow ==
  /\ At("find_window")
  /\ \E outcome \in {"found", "not_found", "raised"} :
       app' = [app EXCEPT !.pc = CASE outcome = "found" -> "restore_window"
                                   [] outcome = "not_found" -> "sys_exit"
                                   [] outcome = "raised" -> "construct"]
  /\ UNCHANGED <<widget, window, last, detector, ci>>

\* lines 71-73 and 77-78: ShowWindow and SetForegroundWindow return or raise
RestoreWindow ==
  /\ At("restore_window")
  /\ \E outcome \in {"returned", "raised"} :
       app' = [app EXCEPT !.pc = IF outcome = "returned" THEN "sys_exit"
                                 ELSE "construct"]
  /\ UNCHANGED <<widget, window, last, detector, ci>>

\* line 76: sys.exit(0); SystemExit is no Exception and passes the handler
SysExit ==
  /\ At("sys_exit")
  /\ app' = [app EXCEPT !.pc = "exited", !.exit_status = Some(0)]
  /\ UNCHANGED <<widget, window, last, detector, ci>>

\* lines 80-149 and 172-177: the QApplication, the objects, the tray menu,
\* the two worker threads started, the event loop entered
Construct ==
  /\ At("construct")
  /\ app' = [app EXCEPT !.pc = "exec", !.constructed = TRUE,
                        !.input_thread = "running",
                        !.updater_thread = "running"]
  /\ UNCHANGED <<widget, window, last, detector, ci>>

\* on_menu_show without the Map Overlay's flag
SetMenuOpened_SkipMapOverlay(b) ==
  /\ app' = [app EXCEPT !.overlay_is_menu_opened = b,
                        !.updater_is_menu_opened = b]
  /\ UNCHANGED <<widget, window, detector, ci>>

\* lines 123-126 and 128-131: the bodies of on_menu_show and on_menu_hide
SetMenuOpened(b) ==
  /\ app' = [app EXCEPT !.overlay_is_menu_opened = b,
                        !.updater_is_menu_opened = b]
  /\ widget' = [widget EXCEPT !.is_menu_opened = b]
  /\ UNCHANGED <<window, detector, ci>>

\* lines 123-126, 136: menu.aboutToShow
OnMenuShow == At("exec") /\ SetMenuOpened(TRUE) /\ last' = "on_menu_show"

\* lines 128-131, 137: menu.aboutToHide
OnMenuHide == At("exec") /\ SetMenuOpened(FALSE) /\ last' = "on_menu_hide"

\* lines 119-126, 134-135: the overlay's right click shows the menu at the
\* cursor and runs on_menu_show
OnRightClick == At("exec") /\ SetMenuOpened(TRUE) /\ last' = "right_click"

\* lines 113, 172: the tray's quit action calls app.quit; aboutToQuit runs
\* on_quit before the event loop returns
QuitRequested ==
  /\ At("exec")
  /\ app' = [app EXCEPT !.pc = "stop_updater"]
  /\ UNCHANGED <<widget, window, last, detector, ci>>

\* lines 154-155
StopUpdater ==
  /\ At("stop_updater")
  /\ app' = [app EXCEPT !.pc = "wait_updater", !.updater_stop = TRUE]
  /\ UNCHANGED <<widget, window, last, detector, ci>>

\* QThread.wait(1000) followed by terminate() when it returned false: the
\* thread as the two calls leave it
WaitOrTerminate(thread) ==
  IF thread = "finished" THEN "finished" ELSE "terminated"

\* mutant: wait() without a timeout
WaitUpdater_Blocking ==
  /\ At("wait_updater")
  /\ app.updater_thread = "finished"
  /\ app' = [app EXCEPT !.pc = "stop_input"]
  /\ UNCHANGED <<widget, window, last, detector, ci>>

\* lines 156-160
WaitUpdater ==
  /\ At("wait_updater")
  /\ app' = [app EXCEPT !.pc = "stop_input",
                        !.updater_thread = WaitOrTerminate(app.updater_thread)]
  /\ UNCHANGED <<widget, window, last, detector, ci>>

\* lines 161-162
StopInput ==
  /\ At("stop_input")
  /\ app' = [app EXCEPT !.pc = "wait_input", !.input_stop = TRUE]
  /\ UNCHANGED <<widget, window, last, detector, ci>>

\* lines 163-170: the wait, and the end of on_quit
WaitInput ==
  /\ At("wait_input")
  /\ app' = [app EXCEPT !.pc = "exec_return",
                        !.input_thread = WaitOrTerminate(app.input_thread),
                        !.quit_runs = app.quit_runs + 1]
  /\ UNCHANGED <<widget, window, last, detector, ci>>

\* lines 177-178: app.exec() returns its exit code
ExecReturns ==
  /\ At("exec_return")
  /\ \E code \in ExitCodes :
       app' = [app EXCEPT !.pc = "save_settings", !.exit_code = Some(code)]
  /\ UNCHANGED <<widget, window, last, detector, ci>>

\* lines 179-181: app.exec() raises, while the loop runs or as it returns
ExecRaises ==
  /\ At("exec") \/ At("exec_return")
  /\ app' = [app EXCEPT !.pc = "save_settings", !.exec_raised = TRUE,
                        !.exit_code = Some(1)]
  /\ UNCHANGED <<widget, window, last, detector, ci>>

\* line 183
SaveSettings ==
  /\ At("save_settings")
  /\ app' = [app EXCEPT !.pc = "os_exit", !.saved = app.saved + 1]
  /\ UNCHANGED <<widget, window, last, detector, ci>>

\* mutant: the process ends with status 0 whatever the exit code
OsExit_Zero ==
  /\ At("os_exit")
  /\ app' = [app EXCEPT !.pc = "exited", !.exit_status = Some(0)]
  /\ UNCHANGED <<widget, window, last, detector, ci>>

\* lines 185-186: sleep, then os._exit(exit_code) ends every thread
OsExit ==
  /\ At("os_exit")
  /\ app' = [app EXCEPT !.pc = "exited", !.exit_status = app.exit_code]
  /\ UNCHANGED <<widget, window, last, detector, ci>>

\* a worker's run loop returns after its stop() was called; nothing obliges
\* it to
UpdaterReturns ==
  /\ ~At("exited")
  /\ app.updater_stop /\ app.updater_thread = "running"
  /\ app' = [app EXCEPT !.updater_thread = "finished"]
  /\ UNCHANGED <<widget, window, last, detector, ci>>

InputReturns ==
  /\ ~At("exited")
  /\ app.input_stop /\ app.input_thread = "running"
  /\ app' = [app EXCEPT !.input_thread = "finished"]
  /\ UNCHANGED <<widget, window, last, detector, ci>>

\* the steps the main thread takes by itself
MainThread ==
  \/ CreateMutex
  \/ FindWindow
  \/ RestoreWindow
  \/ SysExit
  \/ Construct
  \/ StopUpdater
  \/ WaitUpdater
  \/ StopInput
  \/ WaitInput
  \/ ExecReturns
  \/ SaveSettings
  \/ OsExit

\* what the user, the toolkit and the workers do
Environment ==
  \/ OnMenuShow
  \/ OnMenuHide
  \/ OnRightClick
  \/ QuitRequested
  \/ ExecRaises
  \/ UpdaterReturns
  \/ InputReturns

InitApp ==
  /\ widget = Constructed.widget
  /\ window = Constructed.window
  /\ last = "init"
  /\ app = AppStart
  /\ detector = DetectorIdle
  /\ ci = CiIdle

NextApp == MainThread \/ Environment

\* the main thread is never starved
SpecApp == InitApp /\ [][NextApp]_vars /\ WF_vars(MainThread)

----------------------------------------------------------------------------
(* The Map Detector's pattern matching (map_detector.py,                   *)
(* _match_map_pattern).  Construct types are the integer codes of the      *)
(* source; sub-icons are the names of the Attribute and Condition members. *)

\* lines 113-164
CTYPE_SUBICON_MAP ==
  { <<30301, "MAGIC">>, <<32101, "FIRE">>, <<32102, "THUNDER">>,
    <<32200, "FIRE">>, <<32201, "FRENZY">>, <<34001, "BLEED">>,
    <<34002, "FROST">>, <<34003, "HOLY">>, <<34100, "POISON">>,
    <<34101, "POISON">>, <<34102, "MAGIC">>, <<34103, "FROST">>,
    <<34104, "SLEEP">>, <<34200, "DEATH">>, <<34300, "THUNDER">>,
    <<38000, "HOLY">>, <<38100, "FIRE">>, <<50001, "POISON">>,
    <<50011, "POISON">>, <<50020, "FROST">>, <<50030, "SLEEP">>,
    <<50040, "CORRUPTION">>, <<50050, "FRENZY">>, <<50102, "BLEED">>,
    <<50103, "THUNDER">>, <<50104, "HOLY">>, <<50113, "FIRE">>,
    <<50114, "POISON">>, <<50116, "THUNDER">>, <<53580, "FIRE">>,
    <<53590, "MAGIC">>, <<53670, "CORRUPTION">>, <<53680, "HOLY">>,
    <<52500, "BLEED">>, <<52520, "POISON">>, <<52570, "SLEEP">>,
    <<52550, "MAGIC">>, <<52450, "SLEEP">>, <<52460, "THUNDER">>,
    <<52400, "HOLY">>, <<52420, "FROST">> }

\* CTYPE_SUBICON_MAP.get(ctype)
SubIconOf(ctype) ==
  IF \E e \in CTYPE_SUBICON_MAP : e[1] = ctype
    THEN Some((CHOOSE e \in CTYPE_SUBICON_MAP : e[1] = ctype)[2])
    ELSE None

\* truth value of an Attribute/Condition member or None: the members of a
\* plain Enum (lines 94-107) are all true, None is false
Truthy(subicon) == ~IsNone(subicon)

\* line 204 applied to every pair
has_same_base_icon_Thousands(ctype1, ctype2) ==
  ctype1 \div 1000 = ctype2 \div 1000

\* lines 197-204
has_same_base_icon(ctype1, ctype2) ==
  IF ctype1 \div 10000 = 5 \/ ctype2 \div 10000 = 5
    THEN ctype1 \div 100 = ctype2 \div 100
    ELSE ctype1 \div 1000 = ctype2 \div 1000

\* number of positions a pattern holds constructs at
MaxPositions == 2

Positions == 1..MaxPositions

\* number of positions of the patterns of the third variant: from ten
\* positions on two patterns can have equal errors and different scores
MaxRankPositions == 10

RankPositions == 1..MaxRankPositions

\* largest topk asked for
MaxTopk == 2

\* keys of self.all_poi_images (lines 269-288): the construct types the map
\* data places at a position, and 0 for no construct
KnownTypes == { 0, 32100, 32101, 32102, 32200, 34001, 38100, 50001, 50102,
                50103 }

\* what _match_poi returns (line 584)
ObservedTypes == { 0, 32100, 32101, 32102, 34001, 38100, 50102, 50103 }

\* self.info.patterns: earth_shifting, nightlord, treasure, event_value,
\* evpat_flag and pos_constructions of each pattern; 46000 is a construct
\* type that is not a POI
Patterns ==
  << [ id |-> 1, earth_shifting |-> 0, nightlord |-> 0,
       treasure |-> 0, event_value |-> 3080, evpat_flag |-> 0,
       pos_constructions |-> (1 :> 32101) @@ (2 :> 34001) ],
     [ id |-> 2, earth_shifting |-> 0, nightlord |-> 0,
       treasure |-> 1, event_value |-> 0, evpat_flag |-> 0,
       pos_constructions |-> (1 :> 32102) @@ (2 :> 34001) ],
     [ id |-> 3, earth_shifting |-> 0, nightlord |-> 1,
       treasure |-> 0, event_value |-> 3080, evpat_flag |-> 1,
       pos_constructions |-> (1 :> 32100) @@ (2 :> 50102) ],
     [ id |-> 4, earth_shifting |-> 0, nightlord |-> 1,
       treasure |-> 1, event_value |-> 0, evpat_flag |-> 0,
       pos_constructions |-> (1 :> 38100) ],
     [ id |-> 5, earth_shifting |-> 1, nightlord |-> 0,
       treasure |-> 0, event_value |-> 3080, evpat_flag |-> 0,
       pos_constructions |-> (1 :> 50103) @@ (2 :> 46000) ],
     [ id |-> 6, earth_shifting |-> 1, nightlord |-> 1,
       treasure |-> 1, event_value |-> 0, evpat_flag |-> 0,
       pos_constructions |-> (1 :> 32200) @@ (2 :> 50001) ],
     [ id |-> 7, earth_shifting |-> 0, nightlord |-> 0,
       treasure |-> 0, event_value |-> 0, evpat_flag |-> 0,
       pos_constructions |-> (1 :> 32101) @@ (2 :> 34001) ],
     [ id |-> 8, earth_shifting |-> 2, nightlord |-> 0,
       treasure |-> 0, event_value |-> 0, evpat_flag |-> 0,
       pos_constructions |-> [pos \in RankPositions |-> 32101] ],
     [ id |-> 9, earth_shifting |-> 2, nightlord |-> 0,
       treasure |-> 0, event_value |-> 0, evpat_flag |-> 0,
       pos_constructions |->
         [pos \in RankPositions |-> IF pos <= 3 THEN 34001 ELSE 38100] ],
     [ id |-> 10, earth_shifting |-> 2, nightlord |-> 1,
       treasure |-> 0, event_value |-> 0, evpat_flag |-> 0,
       pos_constructions |-> [pos \in RankPositions |-> 38100] ] >>

EarthShiftings == { 0, 1 }

\* what _match_nightlord returns (line 551)
Nightlords == { None, Some(0), Some(1) }

\* lines 605-607: the pattern's construct type at pos, 0 when the pattern
\* has none there or the type has no POI image
ExpectCtype(pattern, pos) ==
  LET t == IF pos \in DOMAIN pattern.pos_constructions
             THEN pattern.pos_constructions[pos] ELSE 0
  IN  IF t \in KnownTypes THEN t ELSE 0

\* lines 612-628 with the 1/3 and 3/1 branches exchanged
Contribution_Swapped(ctype, expect_ctype) ==
  LET subicon == SubIconOf(ctype)
      expect_subicon == SubIconOf(expect_ctype)
  IN  IF ~has_same_base_icon(ctype, expect_ctype)
        THEN IF subicon = expect_subicon THEN <<3, 1>> ELSE <<0, 10>>
        ELSE IF subicon = expect_subicon THEN <<10, 0>>
             ELSE IF Truthy(subicon) \/ Truthy(expect_subicon)
                    THEN <<0, 10>>
                    ELSE <<1, 3>>

\* lines 609-628: what one sampled position adds to <<score, error>>
Contribution(ctype, expect_ctype) ==
  LET subicon == SubIconOf(ctype)
      expect_subicon == SubIconOf(expect_ctype)
  IN  IF ~has_same_base_icon(ctype, expect_ctype)
        THEN IF subicon = expect_subicon THEN <<1, 3>> ELSE <<0, 10>>
        ELSE IF subicon = expect_subicon THEN <<10, 0>>
             ELSE IF Truthy(subicon) \/ Truthy(expect_subicon)
                    THEN <<0, 10>>
                    ELSE <<3, 1>>

\* lines 603-628: the loop over poi_result.items()
RECURSIVE ScoreOver(_, _, _)
ScoreOver(poi_result, pattern, todo) ==
  IF todo = {} THEN <<0, 0>>
  ELSE LET pos == CHOOSE q \in todo : TRUE
           c == Contribution(poi_result[pos], ExpectCtype(pattern, pos))
           rest == ScoreOver(poi_result, pattern, todo \ {pos})
       IN  <<c[1] + rest[1], c[2] + rest[2]>>

\* lines 631-636
MapPatternMatchResult(pattern, nightlord, poi_result) ==
  LET se == ScoreOver(poi_result, pattern, DOMAIN poi_result)
  IN  [ pattern |-> pattern.id, nightlord |-> nightlord,
        score |-> se[1], error |-> se[2] ]

\* lines 599-602
Eligible(pattern, earth_shifting, nightlord) ==
  /\ pattern.earth_shifting = earth_shifting
  /\ ~IsNone(nightlord) => pattern.nightlord = Val(nightlord)

\* line 639 ordering by error alone
KeyLess_ErrorOnly(a, b) == a.error < b.error

\* line 639: key=lambda x: (x.error, -x.score), compared as tuples
KeyLess(a, b) ==
  \/ a.error < b.error
  \/ a.error = b.error /\ -a.score < -b.score

RECURSIVE InsertByKey(_, _)
InsertByKey(x, s) ==
  IF s = <<>> THEN <<x>>
  ELSE IF KeyLess(x, Head(s)) THEN <<x>> \o s
       ELSE <<Head(s)>> \o InsertByKey(x, Tail(s))

\* line 639: sorted() is stable
RECURSIVE sorted(_)
sorted(s) ==
  IF s = <<>> THEN <<>>
  ELSE InsertByKey(s[Len(s)], sorted(SubSeq(s, 1, Len(s) - 1)))

\* line 640: results[:topk] for topk >= 0
TakeFirst(s, topk) == SubSeq(s, 1, IF topk < Len(s) THEN topk ELSE Len(s))

\* sampled positions with the construct type recognised at each (lines
\* 570-585)
PoiResults ==
  UNION { [S -> ObservedTypes] : S \in SUBSET Positions }

\* a call of _match_map_pattern at the start of its loop over the patterns
InitMatch ==
  /\ widget = Constructed.widget
  /\ window = Constructed.window
  /\ last = "init"
  /\ app = AppRunning
  /\ ci = CiIdle
  /\ \E es \in EarthShiftings, nl \in Nightlords, k \in 0..MaxTopk,
        poi \in PoiResults :
       detector = [ pc |-> "patterns", earth_shifting |-> es,
                    nightlord |-> nl, topk |-> k, poi_result |-> poi,
                    idx |-> 1, results |-> <<>>, returned |-> <<>> ]

\* lines 598-602: a pattern of another variant or nightlord is passed over
SkipPattern ==
  /\ detector.pc = "patterns"
  /\ detector.idx <= Len(Patterns)
  /\ ~Eligible(Patterns[detector.idx], detector.earth_shifting,
               detector.nightlord)
  /\ detector' = [detector EXCEPT !.idx = @ + 1]
  /\ UNCHANGED <<widget, window, last, app, ci>>

\* lines 603-636: a pattern is scored and its result appended
ScorePattern ==
  /\ detector.pc = "patterns"
  /\ detector.idx <= Len(Patterns)
  /\ Eligible(Patterns[detector.idx], detector.earth_shifting,
              detector.nightlord)
  /\ detector' =
       [detector EXCEPT
          !.idx = @ + 1,
          !.results = Append(@, MapPatternMatchResult(
                         Patterns[detector.idx], detector.nightlord,
                         detector.poi_result))]
  /\ UNCHANGED <<widget, window, last, app, ci>>

\* lines 639-642: the results are sorted and the first topk returned
RankPatterns ==
  /\ detector.pc = "patterns"
  /\ detector.idx > Len(Patterns)
  /\ detector' = [detector EXCEPT
                    !.pc = "returned",
                    !.returned = TakeFirst(sorted(detector.results),
                                           detector.topk)]
  /\ UNCHANGED <<widget, window, last, app, ci>>

NextMatch ==
  \/ SkipPattern
  \/ ScorePattern
  \/ RankPatterns

SpecMatch == InitMatch /\ [][NextMatch]_vars

\* the two construct types recognised on a map of the third variant
RankObservedTypes == { 32101, 38100 }

\* a call of _match_map_pattern on a map of the third variant with every
\* position sampled
InitRank ==
  /\ widget = Constructed.widget
  /\ window = Constructed.window
  /\ last = "init"
  /\ app = AppRunning
  /\ ci = CiIdle
  /\ \E nl \in Nightlords, k \in 0..MaxTopk,
        poi \in [RankPositions -> RankObservedTypes] :
       detector = [ pc |-> "patterns", earth_shifting |-> 2,
                    nightlord |-> nl, topk |-> k, poi_result |-> poi,
                    idx |-> 1, results |-> <<>>, returned |-> <<>> ]

SpecRank == (InitMatch \/ InitRank) /\ [][NextMatch]_vars

----------------------------------------------------------------------------
(* The version script (scripts/ci_version.py).  A string is the sequence   *)
(* of its characters; "LF" and "CR" stand for the line feed and the        *)
(* carriage return.                                                        *)

Whitespace == { " ", "LF", "CR" }

Digits == { "0", "1", "2", "3", "4", "5", "6", "7", "8", "9" }

UpperCase == <<"A", "B", "C", "D", "E", "F", "G", "H", "I", "J", "K", "L", "M",
               "N", "O", "P", "Q", "R", "S", "T", "U", "V", "W", "X", "Y", "Z">>

LowerCase == <<"a", "b", "c", "d", "e", "f", "g", "h", "i", "j", "k", "l", "m",
               "n", "o", "p", "q", "r", "s", "t", "u", "v", "w", "x", "y", "z">>

\* str.lower() of one character
LowerChar(c) ==
  IF \E i \in 1..Len(UpperCase) : UpperCase[i] = c
    THEN LowerCase[CHOOSE i \in 1..Len(UpperCase) : UpperCase[i] = c]
    ELSE c

\* str.lower()
lower(s) == [i \in 1..Len(s) |-> LowerChar(s[i])]

\* str.startswith
startswith(s, prefix) ==
  /\ Len(s) >= Len(prefix)
  /\ SubSeq(s, 1, Len(prefix)) = prefix

\* s[n:]
Drop(s, n) == SubSeq(s, n + 1, Len(s))

\* str.removeprefix
removeprefix(s, prefix) ==
  IF startswith(s, prefix) THEN Drop(s, Len(prefix)) ELSE s

\* number of leading characters of s that lie in chars
RECURSIVE LeadingIn(_, _)
LeadingIn(s, chars) ==
  IF s = <<>> \/ Head(s) \notin chars THEN 0
  ELSE 1 + LeadingIn(Tail(s), chars)

\* number of trailing characters of s that lie in chars
RECURSIVE TrailingIn(_, _)
TrailingIn(s, chars) ==
  IF s = <<>> \/ s[Len(s)] \notin chars THEN 0
  ELSE 1 + TrailingIn(SubSeq(s, 1, Len(s) - 1), chars)

\* str.rstrip(chars)
rstrip(s, chars) == SubSeq(s, 1, Len(s) - TrailingIn(s, chars))

\* str.strip()
strip(s) ==
  LET t == rstrip(s, Whitespace) IN Drop(t, LeadingIn(t, Whitespace))

\* c in s
Contains(s, c) == \E i \in 1..Len(s) : s[i] = c

\* s.index(c), 1-based
IndexOf(s, c) == CHOOSE i \in 1..Len(s) : s[i] = c /\ \A j \in 1..(i - 1) : s[j] # c

\* re.fullmatch(r"\d+(?:\.\d+)*", s)
FullMatchRelease(s) ==
  /\ Len(s) > 0
  /\ \A i \in 1..Len(s) : s[i] \in Digits \/ s[i] = "."
  /\ s[1] \in Digits /\ s[Len(s)] \in Digits
  /\ \A i \in 1..(Len(s) - 1) : ~(s[i] = "." /\ s[i + 1] = ".")

\* re.fullmatch(r"\.?\d+", s)
FullMatchDotNum(s) ==
  LET digits == IF s # <<>> /\ Head(s) = "." THEN Tail(s) ELSE s
  IN  /\ Len(digits) > 0
      /\ \A i \in 1..Len(digits) : digits[i] \in Digits

RefsTags == <<"r", "e", "f", "s", "/", "t", "a", "g", "s", "/">>

\* line 48: the alternatives of the label group, in the order the pattern
\* tries them
Labels ==
  << <<"a", "l", "p", "h", "a">>,
     <<"a">>,
     <<"b", "e", "t", "a">>,
     <<"b">>,
     <<"r", "c">>,
     <<"p", "r", "e">>,
     <<"p", "r", "e", "v", "i", "e", "w">>,
     <<"d", "e", "v">>,
     <<"p", "o", "s", "t">> >>

\* lines 47-51: the alternatives whose text (in any case) starts suffix and
\* is followed by an optional dot and digits to the end of suffix
LabelMatches(suffix) ==
  { i \in 1..Len(Labels) :
      /\ startswith(lower(suffix), Labels[i])
      /\ FullMatchDotNum(Drop(suffix, Len(Labels[i]))) }

\* lines 47-60: None when the pattern does not match, else the label and num
\* groups of the first alternative that matches
MatchSuffix(suffix) ==
  IF LabelMatches(suffix) = {} THEN None
  ELSE LET i == CHOOSE k \in LabelMatches(suffix) :
                  \A j \in LabelMatches(suffix) : k <= j
           rest == Drop(suffix, Len(Labels[i]))
       IN  Some([ label |-> SubSeq(suffix, 1, Len(Labels[i])),
                  num |-> IF Head(rest) = "." THEN Tail(rest) ELSE rest ])

\* raise VersionError(...)
VersionError == [ ok |-> FALSE, version |-> <<>>, is_prerelease |-> FALSE ]

Returns(version, is_prerelease) ==
  [ ok |-> TRUE, version |-> version, is_prerelease |-> is_prerelease ]

\* lines 62-77 with post returned as a final release
MapLabel_PostIsFinal(base, label, num) ==
  IF label \in { <<"a", "l", "p", "h", "a">>, <<"a">> }
    THEN Returns(base \o <<"a">> \o num, TRUE)
  ELSE IF label \in { <<"b", "e", "t", "a">>, <<"b">> }
    THEN Returns(base \o <<"b">> \o num, TRUE)
  ELSE IF label \in { <<"r", "c">>, <<"p", "r", "e">>,
                      <<"p", "r", "e", "v", "i", "e", "w">> }
    THEN Returns(base \o <<"r", "c">> \o num, TRUE)
  ELSE IF label = <<"d", "e", "v">>
    THEN Returns(base \o <<".", "d", "e", "v">> \o num, TRUE)
  ELSE IF label = <<"p", "o", "s", "t">>
    THEN Returns(base \o <<".", "p", "o", "s", "t">> \o num, FALSE)
  ELSE VersionError

\* lines 62-77
MapLabel(base, label, num) ==
  IF label \in { <<"a", "l", "p", "h", "a">>, <<"a">> }
    THEN Returns(base \o <<"a">> \o num, TRUE)
  ELSE IF label \in { <<"b", "e", "t", "a">>, <<"b">> }
    THEN Returns(base \o <<"b">> \o num, TRUE)
  ELSE IF label = <<"r", "c">>
    THEN Returns(base \o <<"r", "c">> \o num, TRUE)
  ELSE IF label \in { <<"p", "r", "e">>, <<"p", "r", "e", "v", "i", "e", "w">> }
    THEN Returns(base \o <<"r", "c">> \o num, TRUE)
  ELSE IF label = <<"d", "e", "v">>
    THEN Returns(base \o <<".", "d", "e", "v">> \o num, TRUE)
  ELSE IF label = <<"p", "o", "s", "t">>
    THEN Returns(base \o <<".", "p", "o", "s", "t">> \o num, TRUE)
  ELSE VersionError

\* lines 18-77
tag_to_pep440(tag0) ==
  LET stripped == strip(tag0)
      tag == IF startswith(stripped, RefsTags)
               THEN removeprefix(stripped, RefsTags) ELSE stripped
  IN  IF ~startswith(tag, <<"v">>) \/ Len(tag) < 2 THEN VersionError
      ELSE
        LET raw == Tail(tag)
            is_prerelease == Contains(raw, "-")
        IN  IF ~is_prerelease
              THEN IF ~FullMatchRelease(raw) THEN VersionError
                   ELSE Returns(raw, FALSE)
              ELSE
                LET base == SubSeq(raw, 1, IndexOf(raw, "-") - 1)
                    suffix == Drop(raw, IndexOf(raw, "-"))
                    m == MatchSuffix(suffix)
                IN  IF ~FullMatchRelease(base) THEN VersionError
                    ELSE IF IsNone(m) THEN VersionError
                    ELSE MapLabel(base, lower(Val(m).label), Val(m).num)

\* Path.read_text: universal newlines turn "\r\n" and "\r" into "\n"
\* (line 81, line 119)
RECURSIVE read_text(_)
read_text(bytes) ==
  IF bytes = <<>> THEN <<>>
  ELSE IF Head(bytes) = "CR"
    THEN IF Len(bytes) >= 2 /\ bytes[2] = "LF"
           THEN <<"LF">> \o read_text(Drop(bytes, 2))
           ELSE <<"LF">> \o read_text(Tail(bytes))
    ELSE <<Head(bytes)>> \o read_text(Tail(bytes))

\* Path.write_text: every "\n" is written as os.linesep (line 109)
RECURSIVE write_text(_, _)
write_text(text, linesep) ==
  IF text = <<>> THEN <<>>
  ELSE (IF Head(text) = "LF" THEN linesep ELSE <<Head(text)>>)
         \o write_text(Tail(text), linesep)

\* length of the first line of s with its terminator
FirstLineLen(s) ==
  LET n == LeadingIn(s, { c \in { s[i] : i \in 1..Len(s) } :
                            c \notin { "CR", "LF" } })
  IN  IF n = Len(s) THEN n
      ELSE IF s[n + 1] = "CR" /\ n + 2 <= Len(s) /\ s[n + 2] = "LF"
        THEN n + 2
        ELSE n + 1

\* str.splitlines(keepends=True) (line 82)
RECURSIVE splitlines_keepends(_)
splitlines_keepends(s) ==
  IF s = <<>> THEN <<>>
  ELSE <<SubSeq(s, 1, FirstLineLen(s))>>
         \o splitlines_keepends(Drop(s, FirstLineLen(s)))

LineEndings == { "CR", "LF" }

\* str.splitlines() (line 120)
splitlines(s) ==
  LET kept == splitlines_keepends(s)
  IN  [i \in 1..Len(kept) |-> rstrip(kept[i], LineEndings)]

\* "".join(lines)
RECURSIVE join(_)
join(lines) == IF lines = <<>> THEN <<>> ELSE Head(lines) \o join(Tail(lines))

\* number of leading characters of s other than c
RECURSIVE LeadingUntil(_, _)
LeadingUntil(s, c) ==
  IF s = <<>> \/ Head(s) = c THEN 0 ELSE 1 + LeadingUntil(Tail(s), c)

AllWhitespace(s) == \A i \in 1..Len(s) : s[i] \in Whitespace

\* _SECTION_RE.match(line) (line 9): None, or the name group
SectionMatch(line) ==
  LET s1 == Drop(line, LeadingIn(line, Whitespace))
  IN  IF s1 = <<>> \/ Head(s1) # "[" THEN None
      ELSE
        LET n == LeadingUntil(Tail(s1), "]")
            name == SubSeq(Tail(s1), 1, n)
            s2 == Drop(Tail(s1), n)
        IN  IF n = 0 \/ s2 = <<>> THEN None
            ELSE IF AllWhitespace(Tail(s2)) THEN Some(name) ELSE None

VersionWord == <<"v", "e", "r", "s", "i", "o", "n">>

\* _VERSION_LINE_RE.match(line) (line 11): None, or the prefix, value and
\* suffix groups
VersionMatch(line) ==
  LET a == LeadingIn(line, Whitespace)
      s1 == Drop(line, a)
  IN  IF ~startswith(s1, VersionWord) THEN None
      ELSE
        LET s2 == Drop(s1, Len(VersionWord))
            b == LeadingIn(s2, Whitespace)
            s3 == Drop(s2, b)
        IN  IF s3 = <<>> \/ Head(s3) # "=" THEN None
            ELSE
              LET c == LeadingIn(Tail(s3), Whitespace)
                  s4 == Drop(Tail(s3), c)
              IN  IF s4 = <<>> \/ Head(s4) # "\"" THEN None
                  ELSE
                    LET n == LeadingUntil(Tail(s4), "\"")
                        s5 == Drop(Tail(s4), n)
                        plen == a + Len(VersionWord) + b + 1 + c
                    IN  IF s5 = <<>> THEN None
                        ELSE IF ~AllWhitespace(Tail(s5)) THEN None
                        ELSE Some([ prefix |-> SubSeq(line, 1, plen),
                                    value |-> SubSeq(Tail(s4), 1, n),
                                    suffix |-> Tail(s5) ])

ProjectWord == <<"p", "r", "o", "j", "e", "c", "t">>

\* line 88 taking every section for [project]
InProjectSection_Any(name) == TRUE

\* line 88 and line 126: section_match.group("name").strip() == "project"
InProjectSection(name) == strip(name) = ProjectWord

\* lines 84-98 and 122-134: the index of the first line matching the version
\* pattern while in_project holds, 0 when the loop ends without one; the
\* version pattern is matched on the line without its "\r\n" ending
RECURSIVE ScanForVersion(_, _, _)
ScanForVersion(lines, idx, in_project) ==
  IF idx > Len(lines) THEN 0
  ELSE
    LET section_match == SectionMatch(lines[idx])
    IN  IF ~IsNone(section_match)
          THEN ScanForVersion(lines, idx + 1,
                              InProjectSection(Val(section_match)))
        ELSE IF ~in_project
          THEN ScanForVersion(lines, idx + 1, in_project)
        ELSE IF IsNone(VersionMatch(rstrip(lines[idx], LineEndings)))
          THEN ScanForVersion(lines, idx + 1, in_project)
        ELSE idx

\* line 101 never finding the version current
SameVersion_Never(current, new_version) == FALSE

\* line 101
SameVersion(current, new_version) == current = new_version

\* lines 80-115: what the call returns or raises, whether it wrote, and the
\* bytes of the file afterwards
update_pyproject_version(bytes, new_version, linesep) ==
  LET text == read_text(bytes)
      lines == splitlines_keepends(text)
      idx == ScanForVersion(lines, 1, FALSE)
  IN  IF idx = 0
        THEN [ raised |-> TRUE, changed |-> FALSE, wrote |-> FALSE,
               bytes |-> bytes ]
      ELSE
        LET line == lines[idx]
            line_without_ending == rstrip(line, LineEndings)
            m == Val(VersionMatch(line_without_ending))
            line_ending == Drop(line, Len(line_without_ending))
            rebuilt == m.prefix \o <<"\"">> \o new_version \o <<"\"">>
                         \o m.suffix \o line_ending
        IN  IF SameVersion(m.value, new_version)
              THEN [ raised |-> FALSE, changed |-> FALSE, wrote |-> FALSE,
                     bytes |-> bytes ]
              ELSE [ raised |-> FALSE, changed |-> TRUE, wrote |-> TRUE,
                     bytes |-> write_text(
                                 join([lines EXCEPT ![idx] = rebuilt]),
                                 linesep) ]

\* lines 118-139 reading the first version line of any section
read_pyproject_version_AnySection(bytes) ==
  LET lines == splitlines(read_text(bytes))
      hits == { i \in 1..Len(lines) : ~IsNone(VersionMatch(lines[i])) }
  IN  IF hits = {} THEN [ raised |-> TRUE, value |-> <<>> ]
      ELSE [ raised |-> FALSE,
             value |-> Val(VersionMatch(
                         lines[CHOOSE i \in hits : \A j \in hits : i <= j]
                       )).value ]

\* lines 118-139
read_pyproject_version(bytes) ==
  LET lines == splitlines(read_text(bytes))
      idx == ScanForVersion(lines, 1, FALSE)
  IN  IF idx = 0 THEN [ raised |-> TRUE, value |-> <<>> ]
      ELSE [ raised |-> FALSE, value |-> Val(VersionMatch(lines[idx])).value ]

\* lines 142-147: the lines appended to the file GITHUB_ENV names, none when
\* the variable is unset
append_github_env(env_log, github_env, name, value) ==
  IF ~github_env THEN env_log ELSE Append(env_log, <<name, value>>)

BoolText(b) == IF b THEN "true" ELSE "false"

\* what a run of main leaves behind
Outcome(status, raised_by, bytes, env_log, reads, writes, parsed) ==
  [ status |-> status, raised_by |-> raised_by, bytes |-> bytes,
    env_log |-> env_log, reads |-> reads, writes |-> writes,
    parsed |-> parsed ]

\* line 168 with the environment log written before the error leaves main
TagRejected_LogsFirst(a, parsed) ==
  Outcome("VersionError", "tag_to_pep440", a.file,
          append_github_env(<<>>, a.github_env, "PROJECT_VERSION",
                            parsed.version),
          0, 0, parsed)

\* line 168: the VersionError of tag_to_pep440 leaves main
TagRejected(a, parsed) ==
  Outcome("VersionError", "tag_to_pep440", a.file, <<>>, 0, 0, parsed)

\* lines 171-186 returning 0 whatever the comparison finds
CheckMode_AlwaysZero(a, parsed) ==
  LET current == read_pyproject_version(a.file)
  IN  IF current.raised
        THEN Outcome("VersionError", "read_pyproject_version", a.file,
                     <<>>, 1, 0, parsed)
        ELSE Outcome("exit 0", "", a.file, <<>>, 1, 0, parsed)

\* lines 171-186
CheckMode(a, parsed) ==
  LET current == read_pyproject_version(a.file)
      log1 == append_github_env(<<>>, a.github_env, "PROJECT_VERSION",
                                parsed.version)
      log2 == append_github_env(log1, a.github_env, "IS_PRERELEASE",
                                BoolText(parsed.is_prerelease))
      log3 == append_github_env(log2, a.github_env,
                                "CURRENT_PROJECT_VERSION", current.value)
      env_log == IF a.set_github_env THEN log3 ELSE <<>>
  IN  IF current.raised
        THEN Outcome("VersionError", "read_pyproject_version", a.file,
                     <<>>, 1, 0, parsed)
      ELSE IF current.value # parsed.version
        THEN Outcome("exit 2", "", a.file, env_log, 1, 0, parsed)
      ELSE Outcome("exit 0", "", a.file, env_log, 1, 0, parsed)

\* lines 188-196
WriteMode(a, parsed) ==
  LET u == update_pyproject_version(a.file, parsed.version, a.linesep)
      log1 == append_github_env(<<>>, a.github_env, "PROJECT_VERSION",
                                parsed.version)
      log2 == append_github_env(log1, a.github_env, "IS_PRERELEASE",
                                BoolText(parsed.is_prerelease))
      log3 == append_github_env(log2, a.github_env,
                                "PYPROJECT_VERSION_CHANGED",
                                BoolText(u.changed))
      env_log == IF a.set_github_env THEN log3 ELSE <<>>
  IN  IF u.raised
        THEN Outcome("VersionError", "update_pyproject_version", a.file,
                     <<>>, 1, 0, parsed)
        ELSE Outcome("exit 0", "", u.bytes, env_log, 1,
                     IF u.wrote THEN 1 ELSE 0, parsed)

\* lines 150-196
main(a) ==
  LET parsed == tag_to_pep440(a.tag)
  IN  IF ~parsed.ok THEN TagRejected(a, parsed)
      ELSE IF a.check THEN CheckMode(a, parsed)
      ELSE WriteMode(a, parsed)

\* the parts the tags given to --tag are put together from
TagPrefixes == { <<>>, RefsTags }

TagLeads == { <<"v">>, <<>> }

TagBases == { <<"1">>, <<"1", ".", "2">>, <<>>, <<"a", ".", "b">>, <<"1", ".">> }

TagLabels ==
  { Labels[i] : i \in 1..Len(Labels) }
    \cup { <<"R", "C">>, <<"A", "l", "p", "h", "a">>, <<"x", "y", "z">>, <<>> }

TagDots == { <<>>, <<".">> }

TagNums == { <<"1">>, <<"0", "7">>, <<>> }

NoSuffix == [ present |-> FALSE, label |-> <<>>, dot |-> <<>>, num |-> <<>> ]

TagSuffixes ==
  { NoSuffix } \cup
  { [ present |-> TRUE, label |-> l, dot |-> d, num |-> n ] :
      l \in TagLabels, d \in TagDots, n \in TagNums }

TagParts ==
  { [ prefix |-> p, lead |-> l, base |-> b, suffix |-> s ] :
      p \in TagPrefixes, l \in TagLeads, b \in TagBases, s \in TagSuffixes }

\* the tag as text
TagText(parts) ==
  parts.prefix \o parts.lead \o parts.base
    \o (IF parts.suffix.present
          THEN <<"-">> \o parts.suffix.label \o parts.suffix.dot
                 \o parts.suffix.num
          ELSE <<>>)

\* a metadata file whose [project] section holds version 1, and one without
\* a [project] section
TagRunFiles ==
  { <<"[", "p", "r", "o", "j", "e", "c", "t", "]", "LF", "v", "e", "r", "s", "i", "o", "n", " ", "=", " ", "\"", "1", "\"", "LF">>,
    <<"[", "t", "o", "o", "l", "]", "LF", "v", "e", "r", "s", "i", "o", "n", " ", "=", " ", "\"", "1", "\"", "LF">> }

\* a run of the script: the command line, the environment and the file
InitTag ==
  /\ widget = Constructed.widget
  /\ window = Constructed.window
  /\ last = "init"
  /\ app = AppRunning
  /\ detector = DetectorIdle
  /\ \E parts \in TagParts, check \in BOOLEAN, set_github_env \in BOOLEAN,
        github_env \in BOOLEAN, file \in TagRunFiles :
       ci = [ pc |-> "main",
              parts |-> parts,
              args |-> [ tag |-> TagText(parts), check |-> check,
                         set_github_env |-> set_github_env,
                         github_env |-> github_env, file |-> file,
                         linesep |-> <<"LF">> ],
              outcome |-> Outcome("", "", file, <<>>, 0, 0, VersionError) ]

\* line 200: raise SystemExit(main())
Main ==
  /\ ci.pc = "main"
  /\ ci' = [ci EXCEPT !.pc = "exited", !.outcome = main(ci.args)]
  /\ UNCHANGED <<widget, window, last, app, detector>>

NextTag == Main

SpecTag == InitTag /\ [][NextTag]_vars

\* most lines of a metadata file
MaxLines == 4

\* most calls of update_pyproject_version on one file
MaxCalls == 2

\* the lines metadata files are made of: the [project] header, another
\* header, two version lines that differ in value and spacing, and a line
\* that is neither
FileLines ==
  { <<"[", "p", "r", "o", "j", "e", "c", "t", "]">>,
    <<"[", "t", "o", "o", "l", "]">>,
    <<"v", "e", "r", "s", "i", "o", "n", " ", "=", " ", "\"", "1", "\"">>,
    <<" ", "v", "e", "r", "s", "i", "o", "n", "=", "\"", "2", "\"", " ">>,
    <<"n", "a", "m", "e", "=", "\"", "x", "\"">> }

\* the files of at most MaxLines different lines
FileLineLists ==
  UNION { { lines \in [1..n -> FileLines] :
              \A i, j \in 1..n : i # j => lines[i] # lines[j] } :
          n \in 0..MaxLines }

LineSeparators == { <<"LF">>, <<"CR", "LF">> }

\* the lines joined with one terminator; the last line may lack it
FileBytes(lines, terminator, final) ==
  join([i \in 1..Len(lines) |->
          lines[i] \o (IF i < Len(lines) \/ final THEN terminator
                       ELSE <<>>)])

NewVersions == { <<"1">>, <<"3">> }

\* a metadata file, the version asked for and the platform's os.linesep
InitVersionFile ==
  /\ widget = Constructed.widget
  /\ window = Constructed.window
  /\ last = "init"
  /\ app = AppRunning
  /\ detector = DetectorIdle
  /\ \E lines \in FileLineLists, terminator \in LineSeparators,
        final \in BOOLEAN, v \in NewVersions, linesep \in LineSeparators :
         ci = [ pc |-> "file",
                original |-> FileBytes(lines, terminator, final),
                file |-> FileBytes(lines, terminator, final),
                new_version |-> v,
                linesep |-> linesep,
                calls |-> <<>>,
                read |-> None ]

\* a call of update_pyproject_version(path, new_version)
UpdateVersion ==
  /\ Len(ci.calls) < MaxCalls
  /\ LET u == update_pyproject_version(ci.file, ci.new_version, ci.linesep)
     IN  ci' = [ci EXCEPT !.pc = "updated", !.file = u.bytes,
                          !.calls = Append(@, u)]
  /\ UNCHANGED <<widget, window, last, app, detector>>

\* a call of read_pyproject_version(path)
ReadVersion ==
  /\ IsNone(ci.read)
  /\ ci' = [ci EXCEPT !.read = Some(read_pyproject_version(ci.file))]
  /\ UNCHANGED <<widget, window, last, app, detector>>

NextVersionFile ==
  \/ UpdateVersion
  \/ ReadVersion

SpecVersionFile == InitVersionFile /\ [][NextVersionFile]_vars

----------------------------------------------------------------------------
(* Claims about patches and paging, under Spec *)

Applied(p) == update_ui_state(widget, window, p)

SameFields(a, b, fields) == \A f \in fields : a[f] = b[f]

\* what a patch leaves alone, field by field
FrameOf(p, r) ==
  /\ IsNone(p.x) => r.window.geometry = window.geometry
  /\ r.window.opacity = window.opacity
  /\ r.window.shown = window.shown
  /\ IsNone(p.opacity) => r.widget.target_opacity = widget.target_opacity
  /\ IsNone(p.visible) => r.widget.visible = widget.visible
  /\ (IsNone(p.overlay_images) /\ ~p.clear_image) =>
       SameFields(r.widget, widget, {"overlay_images", "map_pattern_idx"})
  /\ IsNone(p.display_crystal_layout) =>
       r.widget.crystal_layout_idx = widget.crystal_layout_idx
  /\ \A f \in GateFields \cup {"map_pattern_matching", "map_pattern_match_time"} :
       IsNone(p[f]) => r.widget[f] = widget[f]

\* C1: every field absent from a patch (None, or clear_image = false) leaves
\* the corresponding widget state as it was, and a patch that sets only
\* opacity changes target_opacity and nothing else.
C1_AbsentFieldsUnchanged ==
  \A p \in Patches :
    LET r == Applied(p)
    IN  /\ FrameOf(p, r)
        /\ OnlyField(p, "opacity") =>
             /\ r.widget = [widget EXCEPT !.target_opacity = Val(p.opacity)]
             /\ r.window = window

\* an opacity-only patch has just retargeted a widget that shows the second
\* page of its images, on a converted geometry, with a crystal layout shown
C1_Witness ==
  /\ last = "opacity_only"
  /\ widget.target_opacity = OpacityHalf
  /\ ~IsNone(widget.overlay_images)
  /\ widget.map_pattern_idx = Some(1)
  /\ ~IsNone(widget.crystal_layout_idx)
  /\ window.geometry # WindowDefaults.geometry

C3_PatchIdempotent ==
  \A p \in Patches :
    LET once == Applied(p)
        twice == update_ui_state(once.widget, once.window, p)
    IN  /\ twice.widget = once.widget
        /\ twice.window = once.window
        /\ twice.raised = once.raised

\* the patch just applied carried only the image list now shown, and applying
\* that patch again changes nothing
C3_Witness ==
  /\ last = "images_only"
  /\ ~IsNone(widget.overlay_images)
  /\ widget.target_opacity = OpacityHalf
  /\ LET p == [EmptyPatch EXCEPT !.overlay_images = widget.overlay_images]
     IN  Applied(p).widget = widget /\ Applied(p).window = window

RECURSIVE Times(_, _, _)
\* op applied k times, op one of the four paging operations
Times(op, wd, k) ==
  IF k = 0 THEN wd
  ELSE Times(op,
             CASE op = "next_overlay_image" -> next_overlay_image(wd)
               [] op = "last_overlay_image" -> last_overlay_image(wd)
               [] op = "next_crystal_layout" -> next_crystal_layout(wd)
               [] op = "last_crystal_layout" -> last_crystal_layout(wd),
             k - 1)

C5_CrystalIndex ==
  /\ \/ IsNone(widget.crystal_layout_idx)
     \/ Val(widget.crystal_layout_idx) \in 0..(NumCrystalLayouts - 1)
  /\ \A p \in Patches :
       ~IsNone(p.display_crystal_layout) =>
         LET r == Applied(p)
         IN  ~r.raised => r.widget.crystal_layout_idx =
                            IF Val(p.display_crystal_layout) THEN Some(0) ELSE None
  /\ IsNone(widget.crystal_layout_idx) =>
       /\ next_crystal_layout(widget) = widget
       /\ last_crystal_layout(widget) = widget
  /\ (widget.visible /\ ~IsNone(widget.crystal_layout_idx)) =>
       LET i == Val(widget.crystal_layout_idx)
       IN  /\ next_crystal_layout(widget) =
                [widget EXCEPT !.crystal_layout_idx =
                                 Some((i + 1) % NumCrystalLayouts)]
           /\ last_crystal_layout(widget) =
                [widget EXCEPT !.crystal_layout_idx =
                   Some((i + NumCrystalLayouts - 1) % NumCrystalLayouts)]
           /\ Times("next_crystal_layout", widget, NumCrystalLayouts) = widget
           /\ Times("last_crystal_layout", widget, NumCrystalLayouts) = widget

\* last_crystal_layout has just wrapped from layout 0 to layout N
C5_Witness ==
  /\ last = "last_crystal_layout"
  /\ widget.visible
  /\ widget.crystal_layout_idx = Some(NumCrystalLayouts - 1)

----------------------------------------------------------------------------
(* Claims about the timer tick, under SpecTick *)

Ticked == last \in {"timerEvent", "timerEvent_ease", "timerEvent_snap"}

Gap == widget.target_opacity - window.opacity

C6_Step ==
  /\ Ticked' =>
       /\ Abs(Gap) > Threshold =>
            StepDen * (window.opacity' - window.opacity) = StepNum * Gap
       /\ (0 < Abs(Gap) /\ Abs(Gap) <= Threshold) =>
            window.opacity' = widget.target_opacity
       /\ Gap = 0 => window.opacity' = window.opacity
       /\ Abs(Gap') <= Abs(Gap)
       /\ Gap > 0 => Gap' >= 0
       /\ Gap < 0 => Gap' <= 0
  /\ ~Ticked' => window.opacity' = window.opacity

\* C6: with the target fixed, a tick moves the real opacity by 60% of the gap
\* while the gap exceeds 0.01 and sets it to the target once 0 < gap <= 0.01;
\* the gap never grows, the opacity never crosses the target, and after
\* finitely many ticks the opacity equals the target and stays there.
C6_EasingConverges ==
  /\ [][C6_Step]_vars
  /\ <>[](window.opacity = widget.target_opacity)

\* a tick has just snapped the opacity onto the target 1.0
C6_Witness ==
  /\ last = "timerEvent_snap"
  /\ widget.target_opacity = OpacityOne
  /\ window.opacity = OpacityOne

\* C7: after every tick the window is shown iff the visible flag is set, the
\* eased opacity is above 0.01 and, when only_show_when_game_foreground is
\* set, the game is foreground or a menu or the settings window is open.
C7_VisibilityRule ==
  Ticked =>
    (window.shown <=>
       /\ widget.visible
       /\ 100 * window.opacity > Scale
       /\ \/ ~widget.only_show_when_game_foreground
          \/ widget.is_game_foreground
          \/ widget.is_menu_opened
          \/ widget.is_setting_opened)

\* a tick shows the window because the settings window is open, the game
\* being in the background
C7_Witness ==
  /\ Ticked
  /\ window.shown
  /\ widget.only_show_when_game_foreground
  /\ ~widget.is_game_foreground
  /\ ~widget.is_menu_opened
  /\ widget.is_setting_opened

----------------------------------------------------------------------------
(* Claims about startup and shutdown, under SpecApp *)

Stopped(thread) == thread \in {"finished", "terminated"}

\* C8: when the named mutex already exists, the process exits with status 0
\* and constructs nothing, on every path through the already-running branch,
\* also when locating or foregrounding the settings window fails.
C8_SecondInstanceConstructsNothing ==
  app.already_running =>
    /\ ~app.constructed
    /\ At("exited") => app.exit_status = Some(0)

\* C9: once quit is requested the handler asks the Updater to stop, waits for
\* its thread and terminates it if it has not finished, then does the same
\* for the Input Listener; the handler ends and the process terminates, also
\* when neither run loop ever returns.
C9_ShutdownCompletes ==
  /\ [](app.pc \in {"stop_input", "wait_input"} =>
          app.updater_stop /\ Stopped(app.updater_thread))
  /\ [](app.quit_runs > 0 =>
          /\ app.updater_stop /\ Stopped(app.updater_thread)
          /\ app.input_stop /\ Stopped(app.input_thread))
  /\ (At("stop_updater") ~> At("exited"))

\* the process has exited after on_quit terminated both workers, neither of
\* which returned
C9_Witness ==
  /\ At("exited")
  /\ app.quit_runs = 1
  /\ app.updater_thread = "terminated"
  /\ app.input_thread = "terminated"

LoopExited == ~IsNone(app.exit_code)

\* C10 as stated: on every exit of the event loop settings are persisted
\* exactly once, after on_quit has stopped or terminated both workers and
\* before the process ends, and the exit status is the loop's exit code (1 if
\* the loop raised).
C10_Original ==
  /\ app.saved <= 1
  /\ app.saved = 1 =>
       /\ LoopExited
       /\ app.quit_runs = 1
       /\ Stopped(app.updater_thread) /\ Stopped(app.input_thread)
  /\ (At("exited") /\ LoopExited) =>
       app.saved = 1 /\ app.exit_status = app.exit_code
  /\ app.exec_raised => app.exit_code = Some(1)

\* C10, what the code does guarantee: on every exit of the event loop
\* settings are persisted exactly once before the process ends, and the exit
\* status is the loop's exit code (1 if the loop raised); only when the loop
\* returned (did not raise) is this after on_quit has stopped or terminated
\* both workers.
C10_PersistOnceThenExit ==
  /\ app.saved <= 1
  /\ app.saved = 1 =>
       /\ LoopExited
       /\ ~app.exec_raised =>
            /\ app.quit_runs = 1
            /\ Stopped(app.updater_thread) /\ Stopped(app.input_thread)
  /\ (At("exited") /\ LoopExited) =>
       app.saved = 1 /\ app.exit_status = app.exit_code
  /\ app.exec_raised => app.exit_code = Some(1)

\* the loop returned a non-zero code after on_quit, the settings were saved
\* and the process ended with that code
C10_Witness ==
  /\ At("exited")
  /\ app.quit_runs = 1
  /\ ~app.exec_raised
  /\ app.saved = 1
  /\ app.exit_status = Some(MaxExitCode)

\* C11: after any sequence of menu about-to-show, about-to-hide and right-click
\* events the is_menu_opened flags of the Primary Overlay, the Map Overlay and
\* the Updater are equal: true after a show or a right click, false after a
\* hide.
C11_MenuFlagsAgree ==
  /\ app.overlay_is_menu_opened = widget.is_menu_opened
  /\ widget.is_menu_opened = app.updater_is_menu_opened
  /\ last \in {"on_menu_show", "right_click"} => widget.is_menu_opened
  /\ last = "on_menu_hide" => ~widget.is_menu_opened

\* a hide event has just cleared the three flags
C11_Witness ==
  /\ last = "on_menu_hide"
  /\ At("exec")
  /\ ~app.overlay_is_menu_opened
  /\ ~widget.is_menu_opened
  /\ ~app.updater_is_menu_opened

----------------------------------------------------------------------------
(* Claims about pattern matching, under SpecMatch *)

AllContributions == { <<10, 0>>, <<1, 3>>, <<0, 10>>, <<3, 1>> }

SameSubIcon(a, b) == SubIconOf(a) = SubIconOf(b)

\* exactly one of the two construct types has a sub-icon
OneHasSubIcon(a, b) == IsNone(SubIconOf(a)) # IsNone(SubIconOf(b))

\* both construct types have a sub-icon and the two differ
BothDiffer(a, b) ==
  /\ ~IsNone(SubIconOf(a)) /\ ~IsNone(SubIconOf(b))
  /\ SubIconOf(a) # SubIconOf(b)

\* the contributions the scoring matrix of C12 allows for a pair; the matrix
\* of C12 names no value for equal base icons with two different sub-icons
Matrix(ctype, expect) ==
  IF has_same_base_icon(ctype, expect)
    THEN IF SameSubIcon(ctype, expect) THEN { <<10, 0>> }
         ELSE IF OneHasSubIcon(ctype, expect) THEN { <<0, 10>> }
         ELSE AllContributions
    ELSE IF SameSubIcon(ctype, expect) THEN { <<1, 3>> }
         ELSE { <<0, 10>> }

RECURSIVE SumOf(_, _, _)
SumOf(f, k, todo) ==
  IF todo = {} THEN 0
  ELSE LET pos == CHOOSE q \in todo : TRUE
       IN  f[pos][k] + SumOf(f, k, todo \ {pos})

PatternById(id) == CHOOSE i \in 1..Len(Patterns) : Patterns[i].id = id

\* C12: each sampled position contributes (10, 0) when base icon and sub-icon
\* both match, (1, 3) when the base icon differs and the sub-icons are equal,
\* (0, 10) when the base icon matches and exactly one side has a sub-icon,
\* (0, 10) when neither matches; a pattern's score and error are the sums of
\* the contributions over the sampled positions.
C12_ScoringMatrix ==
  \A i \in 1..Len(detector.results) :
    LET r == detector.results[i]
        pattern == Patterns[PatternById(r.pattern)]
        sampled == DOMAIN detector.poi_result
    IN  \E f \in [sampled -> AllContributions] :
          /\ \A pos \in sampled :
               f[pos] \in Matrix(detector.poi_result[pos],
                                 ExpectCtype(pattern, pos))
          /\ r.score = SumOf(f, 1, sampled)
          /\ r.error = SumOf(f, 2, sampled)

\* a pattern was scored over two positions, one with base icon and sub-icon
\* matching and one with a different base icon and equal sub-icons
C12_Witness ==
  /\ Len(detector.results) > 0
  /\ DOMAIN detector.poi_result = {1, 2}
  /\ detector.results[1].pattern = 1
  /\ detector.poi_result[1] = 32101
  /\ detector.poi_result[2] = 50102
  /\ detector.results[1].score = 11
  /\ detector.results[1].error = 3

\* C13: a position whose observed and expected types share the base icon and
\* carry two different sub-icons contributes score 3 and error 1.
C13_BothDifferScoresThreeOne ==
  \A i \in 1..Len(detector.results) :
    LET r == detector.results[i]
        pattern == Patterns[PatternById(r.pattern)]
    IN  (DOMAIN detector.poi_result = {1}
           /\ BothDiffer(detector.poi_result[1], ExpectCtype(pattern, 1)))
          /\ has_same_base_icon(detector.poi_result[1],
                                ExpectCtype(pattern, 1))
        => r.score = 3 /\ r.error = 1

EligibleIds ==
  { Patterns[i].id : i \in { j \in 1..Len(Patterns) :
        Eligible(Patterns[j], detector.earth_shifting, detector.nightlord) } }

ResultOf(id) ==
  MapPatternMatchResult(Patterns[PatternById(id)], detector.nightlord,
                        detector.poi_result)

\* a ranks no later than b: smaller error, or equal error and no smaller score
RanksNoLater(a, b) ==
  \/ a.error < b.error
  \/ a.error = b.error /\ a.score >= b.score

Min(a, b) == IF a < b THEN a ELSE b

\* C14: the candidates returned are the first min(topk, number of eligible
\* patterns) of the eligible patterns in order of ascending error, ties by
\* descending score; no candidate returned has a larger error than an
\* eligible pattern that was not returned.
C14_PatternRanking ==
  detector.pc = "returned" =>
    LET ret == detector.returned
        ids == { ret[i].pattern : i \in 1..Len(ret) }
    IN  /\ Len(ret) = Min(detector.topk, Cardinality(EligibleIds))
        /\ Cardinality(ids) = Len(ret)
        /\ ids \subseteq EligibleIds
        /\ \A i \in 1..Len(ret) : ret[i] = ResultOf(ret[i].pattern)
        /\ \A i \in 1..Len(ret) - 1 : RanksNoLater(ret[i], ret[i + 1])
        /\ \A i \in 1..Len(ret) : \A id \in EligibleIds \ ids :
             /\ RanksNoLater(ret[i], ResultOf(id))
             /\ ret[i].error <= ResultOf(id).error

\* one candidate was returned of two eligible patterns with equal errors: the
\* later pattern of the catalogue, whose score is larger
C14_Witness ==
  /\ detector.pc = "returned"
  /\ detector.topk = 1
  /\ EligibleIds = {8, 9}
  /\ Len(detector.returned) = 1
  /\ detector.returned[1].pattern = 9
  /\ ResultOf(8).error = detector.returned[1].error
  /\ ResultOf(8).score < detector.returned[1].score

----------------------------------------------------------------------------
(* Claims about the tag mapping and the command line, under SpecTag *)

GoodBases == { <<"1">>, <<"1", ".", "2">> }

GoodNums == { <<"1">>, <<"0", "7">> }

\* the PEP 440 marker of each label text of the table of C15
MarkerTable ==
  { <<<<"a", "l", "p", "h", "a">>, <<"a">>>>, <<<<"A", "l", "p", "h", "a">>, <<"a">>>>,
    <<<<"a">>, <<"a">>>>,
    <<<<"b", "e", "t", "a">>, <<"b">>>>, <<<<"b">>, <<"b">>>>,
    <<<<"r", "c">>, <<"r", "c">>>>, <<<<"R", "C">>, <<"r", "c">>>>,
    <<<<"p", "r", "e">>, <<"r", "c">>>>,
    <<<<"p", "r", "e", "v", "i", "e", "w">>, <<"r", "c">>>>,
    <<<<"d", "e", "v">>, <<".", "d", "e", "v">>>>,
    <<<<"p", "o", "s", "t">>, <<".", "p", "o", "s", "t">>>> }

KnownLabel(label) == \E e \in MarkerTable : e[1] = label

MarkerOf(label) == (CHOOSE e \in MarkerTable : e[1] = label)[2]

\* the tag has the form [refs/tags/]v<base>
ReleaseForm(parts) ==
  /\ parts.lead = <<"v">>
  /\ parts.base \in GoodBases
  /\ ~parts.suffix.present

\* the tag has the form [refs/tags/]v<base>-<label>[.]<num>
PreReleaseForm(parts) ==
  /\ parts.lead = <<"v">>
  /\ parts.base \in GoodBases
  /\ parts.suffix.present
  /\ KnownLabel(parts.suffix.label)
  /\ parts.suffix.num \in GoodNums

\* C15: a tag [refs/tags/]v<base> maps to (<base>, false); a tag
\* [refs/tags/]v<base>-<label>[.]<num> maps to <base>a<num>, <base>b<num>,
\* <base>rc<num> (rc, pre, preview), <base>.dev<num> or <base>.post<num>, with
\* the label in any case, all flagged pre-release, post included.
C15_TagMapping ==
  ci.pc = "exited" =>
    LET parts == ci.parts
        parsed == ci.outcome.parsed
    IN  /\ ReleaseForm(parts) =>
             parsed = Returns(parts.base, FALSE)
        /\ PreReleaseForm(parts) =>
             parsed = Returns(parts.base \o MarkerOf(parts.suffix.label)
                                \o parts.suffix.num, TRUE)

\* refs/tags/v1.2-post.07 was mapped to 1.2.post07, flagged pre-release
C15_Witness ==
  /\ ci.pc = "exited"
  /\ ci.args.tag = <<"r", "e", "f", "s", "/", "t", "a", "g", "s", "/", "v", "1", ".", "2", "-", "p", "o", "s", "t", ".", "0", "7">>
  /\ ci.outcome.parsed.ok
  /\ ci.outcome.parsed.version = <<"1", ".", "2", ".", "p", "o", "s", "t", "0", "7">>
  /\ ci.outcome.parsed.is_prerelease

\* the tag does not start with v, is just v, has a base that is not digits
\* and dots, or has an unsupported suffix
Malformed(parts) == ~ReleaseForm(parts) /\ ~PreReleaseForm(parts)

\* C16: for a malformed tag the run fails with the VersionError of the tag
\* mapping and, in write mode and in check mode, the metadata file is neither
\* read nor written and nothing is appended to the environment log.
C16_MalformedTagTouchesNothing ==
  (ci.pc = "exited" /\ Malformed(ci.parts)) =>
    /\ ci.outcome.status = "VersionError"
    /\ ci.outcome.raised_by = "tag_to_pep440"
    /\ ci.outcome.bytes = ci.args.file
    /\ ci.outcome.reads = 0
    /\ ci.outcome.writes = 0
    /\ ci.outcome.env_log = <<>>

\* v1-xyz.1 was rejected in write mode with the environment log asked for
\* and available
C16_Witness ==
  /\ ci.pc = "exited"
  /\ ci.args.tag = <<"v", "1", "-", "x", "y", "z", ".", "1">>
  /\ ~ci.args.check
  /\ ci.args.set_github_env /\ ci.args.github_env
  /\ ci.outcome.status = "VersionError"
  /\ ci.outcome.writes = 0
  /\ ci.outcome.env_log = <<>>

----------------------------------------------------------------------------
(* Claims about the metadata file, under SpecVersionFile *)

\* the lines of the file as stored, each with its terminator
StoredLines(bytes) == splitlines_keepends(bytes)

ContentOf(line) == rstrip(line, LineEndings)

EndingOf(line) == Drop(line, Len(ContentOf(line)))

IsHeader(line) == ~IsNone(SectionMatch(ContentOf(line)))

IsVersionLine(line) == ~IsNone(VersionMatch(ContentOf(line)))

\* line i lies inside the [project] section: the nearest header above it is
\* [project]
InsideProject(lines, i) ==
  /\ ~IsHeader(lines[i])
  /\ \E j \in 1..(i - 1) :
       /\ IsHeader(lines[j])
       /\ strip(Val(SectionMatch(ContentOf(lines[j])))) = ProjectWord
       /\ \A k \in (j + 1)..(i - 1) : ~IsHeader(lines[k])

\* the version lines inside [project]
ProjectVersionLines(lines) ==
  { i \in 1..Len(lines) : IsVersionLine(lines[i]) /\ InsideProject(lines, i) }

FirstOf(S) == CHOOSE i \in S : \A j \in S : i <= j

ValueAt(lines, i) == Val(VersionMatch(ContentOf(lines[i]))).value

\* the first call changed the file
FirstCallChanged == Len(ci.calls) >= 1 /\ ci.calls[1].changed

\* C17: when the first version line inside [project] already holds the new
\* version, update_pyproject_version returns False and does not write, the
\* file stays byte-identical; a second call with the same version after a
\* successful update reports unchanged.
C17_UpToDateIsNoOp ==
  LET lines == StoredLines(ci.original)
      targets == ProjectVersionLines(lines)
  IN  /\ (Len(ci.calls) >= 1 /\ targets # {}
            /\ ValueAt(lines, FirstOf(targets)) = ci.new_version) =>
           /\ ~ci.calls[1].raised /\ ~ci.calls[1].changed
           /\ ~ci.calls[1].wrote
           /\ ci.calls[1].bytes = ci.original
      /\ (Len(ci.calls) >= 2 /\ FirstCallChanged) =>
           /\ ~ci.calls[2].raised /\ ~ci.calls[2].changed
           /\ ~ci.calls[2].wrote
           /\ ci.calls[2].bytes = ci.calls[1].bytes

\* a first call changed version 2 to 3 and a second call reported unchanged
C17_Witness ==
  /\ Len(ci.calls) = 2
  /\ ci.new_version = <<"3">>
  /\ ci.calls[1].changed
  /\ ~ci.calls[2].changed /\ ~ci.calls[2].raised
  /\ ci.file # ci.original

\* the version line with its value replaced
WithValue(line, value) ==
  LET m == Val(VersionMatch(ContentOf(line)))
  IN  m.prefix \o <<"\"">> \o value \o <<"\"">> \o m.suffix

\* C18: a call that changes the file rewrites the first version line inside
\* [project] and no other line: look-alike version lines before [project], in
\* another section or after the first match keep their content.
C18_OneLineRewritten ==
  FirstCallChanged =>
    LET before == StoredLines(ci.original)
        after == StoredLines(ci.calls[1].bytes)
        targets == ProjectVersionLines(before)
    IN  /\ targets # {}
        /\ Len(after) = Len(before)
        /\ \A i \in 1..Len(before) :
             ContentOf(after[i]) =
               IF i = FirstOf(targets)
                 THEN WithValue(before[i], ci.new_version)
                 ELSE ContentOf(before[i])

\* the file held [project], two version lines, [tool]; the call rewrote the
\* second line and left the look-alike on line 3
C18_Witness ==
  /\ FirstCallChanged
  /\ Len(StoredLines(ci.original)) = 4
  /\ IsHeader(StoredLines(ci.original)[4])
  /\ ProjectVersionLines(StoredLines(ci.original)) = {2, 3}
  /\ ContentOf(StoredLines(ci.file)[3])
       = ContentOf(StoredLines(ci.original)[3])
  /\ ContentOf(StoredLines(ci.file)[2])
       # ContentOf(StoredLines(ci.original)[2])

\* C19: a call that changes the file keeps the terminator of every line:
\* "\r\n" stays "\r\n", "\n" stays "\n", an unterminated last line stays
\* unterminated.
C19_TerminatorsPreserved ==
  FirstCallChanged =>
    LET before == StoredLines(ci.original)
        after == StoredLines(ci.calls[1].bytes)
    IN  /\ Len(after) = Len(before)
        /\ \A i \in 1..Len(before) : EndingOf(after[i]) = EndingOf(before[i])

\* C20: when no line inside a [project] section matches the version pattern,
\* update_pyproject_version and read_pyproject_version both raise VersionError
\* and the file is not written.
C20_NotFound ==
  ProjectVersionLines(StoredLines(ci.original)) = {} =>
    /\ \A i \in 1..Len(ci.calls) :
         ci.calls[i].raised /\ ~ci.calls[i].wrote
    /\ ~IsNone(ci.read) => Val(ci.read).raised
    /\ ci.file = ci.original

\* the only version line stands under [tool]; the update and the read both
\* raised
C20_Witness ==
  /\ Len(ci.calls) >= 1
  /\ ~IsNone(ci.read)
  /\ ci.calls[1].raised
  /\ Val(ci.read).raised
  /\ ci.file = ci.original
  /\ \E i \in 1..Len(StoredLines(ci.original)) :
       IsVersionLine(StoredLines(ci.original)[i])
  /\ \E i \in 1..Len(StoredLines(ci.original)) :
       ContentOf(StoredLines(ci.original)[i]) = <<"[", "p", "r", "o", "j", "e", "c", "t", "]">>

----------------------------------------------------------------------------
(* Further claims about the command line, under SpecTag *)

\* C21: with --check the metadata file is never written, and the exit status
\* is 0 exactly when the current [project] version equals the version derived
\* from the tag and 2 exactly when it differs.
C21_CheckModeReadOnly ==
  (ci.pc = "exited" /\ ci.args.check) =>
    LET lines == StoredLines(ci.args.file)
        targets == ProjectVersionLines(lines)
        derived == ci.outcome.parsed
    IN  /\ ci.outcome.writes = 0
        /\ ci.outcome.bytes = ci.args.file
        /\ (derived.ok /\ targets # {}) =>
             LET current == ValueAt(lines, FirstOf(targets))
             IN  /\ ci.outcome.status = "exit 0" <=> current = derived.version
                 /\ ci.outcome.status = "exit 2" <=> current # derived.version
        /\ ci.outcome.status \in {"exit 0", "exit 2"}
             => derived.ok /\ targets # {}

\* a check of tag v1.2 against a file holding version 1 ended with status 2
C21_Witness ==
  /\ ci.pc = "exited"
  /\ ci.args.check
  /\ ci.args.tag = <<"v", "1", ".", "2">>
  /\ ci.outcome.status = "exit 2"
  /\ ci.outcome.reads = 1
  /\ ci.outcome.bytes = ci.args.file

----------------------------------------------------------------------------
(* MapDetector.detect (detector/map_detector.py 881-936): pattern matching *)
(* followed by the rendering of every returned candidate.  A file of the   *)
(* data directory is named by its kind and its dynamic id.                 *)

\* the data directory: the treasure and frenzy images present, and whether
\* the fixed icon set of lines 673-704 is present
DataDirs ==
  [ treasures : { {}, {0, 1}, {10, 11}, {0, 1, 10, 11} },
    frenzy : SUBSET {0, 1},
    icons : BOOLEAN ]

\* lines 35-38: FileNotFoundError when the path does not exist
open_pil_image(files, kind, id) ==
  CASE kind = "treasure" -> id \in files.treasures
    [] kind = "frenzy" -> id \in files.frenzy
    [] OTHER -> files.icons

\* the loop of lines 598-636 as one list
RECURSIVE ScoredFrom(_, _, _, _)
ScoredFrom(idx, earth_shifting, nightlord, poi_result) ==
  IF idx > Len(Patterns) THEN <<>>
  ELSE (IF Eligible(Patterns[idx], earth_shifting, nightlord)
          THEN <<MapPatternMatchResult(Patterns[idx], nightlord, poi_result)>>
          ELSE <<>>)
       \o ScoredFrom(idx + 1, earth_shifting, nightlord, poi_result)

\* lines 598-642: _match_map_pattern from the sampled positions on
match_map_pattern(earth_shifting, nightlord, poi_result, topk) ==
  TakeFirst(sorted(ScoredFrom(1, earth_shifting, nightlord, poi_result)),
            topk)

\* lines 839-840: the frenzy image is opened outside any try block
FrenzyRaises(files, pattern) ==
  /\ pattern.event_value = 3080
  /\ ~open_pil_image(files, "frenzy", pattern.evpat_flag)

\* lines 645-879: _draw_overlay_image raises or returns the image, which is
\* described by the pattern drawn and the decorations it carries
draw_overlay_image(files, result) ==
  LET pattern == Patterns[PatternById(result.pattern)]
      treasure_id == pattern.treasure * 10 + pattern.earth_shifting
  IN  IF ~open_pil_image(files, "icons", 0) \/ FrenzyRaises(files, pattern)
        THEN [ raised |-> TRUE ]
        ELSE [ raised |-> FALSE,
               img |-> [ pattern |-> pattern.id,
                         treasure |->
                           open_pil_image(files, "treasure", treasure_id),
                         frenzy |-> pattern.event_value = 3080 ] ]

\* lines 926-934 with the pattern appended before the image is drawn
DrawStep_PatternFirst(d, drawn) ==
  IF drawn.raised
    THEN [d EXCEPT !.i = @ + 1,
                   !.patterns = Some(Append(Val(@), d.results[d.i].pattern))]
    ELSE [d EXCEPT !.i = @ + 1,
                   !.overlay_images = Some(Append(Val(@), drawn.img)),
                   !.patterns = Some(Append(Val(@), d.results[d.i].pattern))]

\* lines 926-934: one turn of the rendering loop
DrawStep(d, drawn) ==
  IF drawn.raised
    THEN [d EXCEPT !.i = @ + 1]
    ELSE [d EXCEPT !.i = @ + 1,
                   !.overlay_images = Some(Append(Val(@), drawn.img)),
                   !.patterns = Some(Append(Val(@), d.results[d.i].pattern))]

\* the positions sampled by a detect call
DetectPoiResults == [Positions -> RankObservedTypes]

\* a detect call that has captured the image (line 894)
InitDetect ==
  /\ widget = Constructed.widget
  /\ window = Constructed.window
  /\ last = "init"
  /\ app = AppRunning
  /\ ci = CiIdle
  /\ \E es \in EarthShiftings, nl \in Nightlords, k \in 0..MaxTopk,
        poi \in DetectPoiResults, files \in DataDirs, m \in BOOLEAN :
       detector = [ pc |-> "called", files |-> files,
                    do_match_pattern |-> m, earth_shifting |-> es,
                    nightlord |-> nl, topk |-> k, poi_result |-> poi,
                    results |-> <<>>, i |-> 1,
                    patterns |-> None, overlay_images |-> None ]

\* lines 910-925: the candidates are ranked and both lists start empty
MatchPattern ==
  /\ detector.pc = "called"
  /\ detector.do_match_pattern
  /\ detector' =
       [detector EXCEPT
          !.pc = "draw",
          !.results = match_map_pattern(detector.earth_shifting,
                        detector.nightlord, detector.poi_result,
                        detector.topk),
          !.patterns = Some(<<>>),
          !.overlay_images = Some(<<>>)]
  /\ UNCHANGED <<widget, window, last, app, ci>>

\* line 910 when do_match_pattern is false, then line 936
SkipMatchPattern ==
  /\ detector.pc = "called"
  /\ ~detector.do_match_pattern
  /\ detector' = [detector EXCEPT !.pc = "returned"]
  /\ UNCHANGED <<widget, window, last, app, ci>>

\* lines 926-934
DrawOverlay ==
  /\ detector.pc = "draw"
  /\ detector.i <= Len(detector.results)
  /\ detector' = DrawStep(detector,
                   draw_overlay_image(detector.files,
                                      detector.results[detector.i]))
  /\ UNCHANGED <<widget, window, last, app, ci>>

\* line 936
DetectReturns ==
  /\ detector.pc = "draw"
  /\ detector.i > Len(detector.results)
  /\ detector' = [detector EXCEPT !.pc = "returned"]
  /\ UNCHANGED <<widget, window, last, app, ci>>

NextDetect ==
  \/ MatchPattern
  \/ SkipMatchPattern
  \/ DrawOverlay
  \/ DetectReturns

SpecDetect == InitDetect /\ [][NextDetect]_vars

----------------------------------------------------------------------------
(* Claims about detect, under SpecDetect *)

\* the ids of the returned candidates, in ranking order
Candidates == [k \in 1..Len(detector.results) |-> detector.results[k].pattern]

\* the positions of the candidates whose treasure or frenzy image is
\* missing while the fixed icons are present
MissingDecoration(k) ==
  LET pattern == Patterns[PatternById(Candidates[k])]
  IN  /\ detector.files.icons
      /\ \/ pattern.treasure * 10 + pattern.earth_shifting
              \notin detector.files.treasures
         \/ pattern.event_value = 3080
              /\ pattern.evpat_flag \notin detector.files.frenzy

InList(x, list) == \E j \in 1..Len(list) : list[j] = x

\* C22: when the treasure image or the frenzy image of a returned candidate
\* does not exist, the candidate is still in the result's patterns and its
\* image, without the missing decoration, is still in overlay_images
C22_MissingDecorationKeepsOverlay ==
  detector.pc = "returned" /\ detector.do_match_pattern =>
    \A k \in 1..Len(Candidates) :
      MissingDecoration(k) =>
        /\ InList(Candidates[k], Val(detector.patterns))
        /\ \E j \in 1..Len(Val(detector.overlay_images)) :
             Val(detector.overlay_images)[j].pattern = Candidates[k]

\* the place of a candidate in the ranking
RankOf(id) == CHOOSE k \in 1..Len(Candidates) : Candidates[k] = id

\* what rendering the k-th candidate gives
RenderingOf(k) == draw_overlay_image(detector.files, detector.results[k])

\* C29: once detect has run pattern matching, patterns and overlay_images
\* have the same length, at most the number of ranked candidates, which is
\* at most topk; overlay_images[j] is the rendering of patterns[j]; the
\* retained candidates are in ranking order; and on return the retained
\* candidates are exactly those whose rendering did not fail
C29_PatternsAndImagesAligned ==
  (detector.pc \in {"draw", "returned"} /\ detector.do_match_pattern) =>
    LET patterns == Val(detector.patterns)
        overlay_images == Val(detector.overlay_images)
    IN  /\ Len(patterns) = Len(overlay_images)
        /\ Len(patterns) <= Len(detector.results)
        /\ Len(detector.results) <= detector.topk
        /\ \A j \in 1..Len(patterns) :
             /\ InList(patterns[j], Candidates)
             /\ ~RenderingOf(RankOf(patterns[j])).raised
             /\ overlay_images[j] = RenderingOf(RankOf(patterns[j])).img
        /\ \A j, k \in 1..Len(patterns) :
             j < k => RankOf(patterns[j]) < RankOf(patterns[k])
        /\ detector.pc = "returned" =>
             \A k \in 1..Len(Candidates) :
               InList(Candidates[k], patterns) <=> ~RenderingOf(k).raised

\* detect returns after the first of two candidates failed to render and the
\* second was kept
C29_Witness ==
  /\ detector.pc = "returned"
  /\ detector.do_match_pattern
  /\ Len(detector.results) = 2
  /\ RenderingOf(1).raised
  /\ Val(detector.patterns) = <<Candidates[2]>>
  /\ Len(Val(detector.overlay_images)) = 1

----------------------------------------------------------------------------
(* process_region_to_adapt_scale (ui/utils.py 86-93).  A scale factor is a *)
(* ratio num/den whose float is exact, so that w / scale and q * scale     *)
(* truncate as the exact quotients do.                                     *)

MaxExtent == 12

\* 1.0, 1.25, 1.5, 1.75 and 2.0
ScaleFactors ==
  { [num |-> 1, den |-> 1], [num |-> 5, den |-> 4], [num |-> 3, den |-> 2],
    [num |-> 7, den |-> 4], [num |-> 2, den |-> 1] }

AdaptRegions ==
  { <<x, y, w, h>> : x \in {0, 3}, y \in {0, 4},
                     w \in 0..MaxExtent \cup {1003},
                     h \in 0..MaxExtent \cup {751} }

\* lines 91-92: int(int(w / scale) * scale) for w >= 0
AdaptExtent(w, scale) == MulRatio(DivRatio(w, scale), scale)

\* lines 90-93
process_region_to_adapt_scale(region, scale) ==
  <<region[1], region[2], AdaptExtent(region[3], scale),
    AdaptExtent(region[4], scale)>>

\* a call of process_region_to_adapt_scale
InitAdapt ==
  /\ widget = Constructed.widget
  /\ window = Constructed.window
  /\ last = "init"
  /\ app = AppRunning
  /\ ci = CiIdle
  /\ \E region \in AdaptRegions, scale \in ScaleFactors :
       detector = [ pc |-> "called", region |-> region, scale |-> scale,
                    returned |-> None ]

ProcessRegion ==
  /\ detector.pc = "called"
  /\ detector' = [detector EXCEPT
                    !.pc = "returned",
                    !.returned = Some(process_region_to_adapt_scale(
                                        detector.region, detector.scale))]
  /\ UNCHANGED <<widget, window, last, app, ci>>

NextAdapt == ProcessRegion

SpecAdapt == InitAdapt /\ [][NextAdapt]_vars

\* n / scale is an integer
WholeOver(n, scale) == (n * scale.den) % scale.num = 0

\* C23: the returned region keeps x and y; its width and height divided by
\* the scale factor are integers; they are int(int(w/scale)*scale) and
\* int(int(h/scale)*scale) and do not exceed the original width and height
C23_ScaledSizeIsWhole ==
  detector.pc = "returned" =>
    LET region == detector.region
        scale == detector.scale
        new == Val(detector.returned)
    IN  /\ new[1] = region[1] /\ new[2] = region[2]
        /\ WholeOver(new[3], scale) /\ WholeOver(new[4], scale)
        /\ new[3] = (((region[3] * scale.den) \div scale.num) * scale.num)
                      \div scale.den
        /\ new[4] = (((region[4] * scale.den) \div scale.num) * scale.num)
                      \div scale.den
        /\ new[3] <= region[3] /\ new[4] <= region[4]

----------------------------------------------------------------------------
(* has_same_base_icon (detector/map_detector.py 197-204) on its own *)

\* construct type codes inside and outside the DLC range 50000..59999
BaseIconCodes ==
  { 0, 5, 32100, 34001, 34002, 38000, 49999, 50001, 50102, 53580, 53581,
    53590, 59999, 60000 }

InitBaseIcon ==
  /\ widget = Constructed.widget
  /\ window = Constructed.window
  /\ last = "init"
  /\ app = AppRunning
  /\ ci = CiIdle
  /\ \E ctype1, ctype2 \in BaseIconCodes :
       detector = [ pc |-> "called", ctype1 |-> ctype1, ctype2 |-> ctype2,
                    returned |-> None ]

HasSameBaseIcon ==
  /\ detector.pc = "called"
  /\ detector' = [detector EXCEPT
                    !.pc = "returned",
                    !.returned = Some(has_same_base_icon(detector.ctype1,
                                                         detector.ctype2))]
  /\ UNCHANGED <<widget, window, last, app, ci>>

NextBaseIcon == HasSameBaseIcon

SpecBaseIcon == InitBaseIcon /\ [][NextBaseIcon]_vars

IsDlc(ctype) == ctype \div 10000 = 5

\* C24 as stated: the two rules, with 53580 vs 53590 compared as different
C24_Original ==
  detector.pc = "returned" =>
    LET a == detector.ctype1
        b == detector.ctype2
        same == Val(detector.returned)
    IN  /\ (IsDlc(a) /\ IsDlc(b)) => (same <=> a \div 100 = b \div 100)
        /\ (~IsDlc(a) /\ ~IsDlc(b)) => (same <=> a \div 1000 = b \div 1000)
        /\ (a = 53580 /\ b = 53581) => same
        /\ (a = 53580 /\ b = 53590) => ~same
        /\ (a = 34001 /\ b = 34002) => same
        /\ (a = 34001 /\ b = 38000) => ~same

\* C24: for two DLC codes has_same_base_icon is true iff they agree after
\* integer division by 100 (53580 vs 53581 true, 53580 vs 53590 true as both
\* give 535, 53580 vs 50102 false), and for two non-DLC codes iff they agree
\* after integer division by 1000 (34001 vs 34002 true, 34001 vs 38000
\* false)
C24_BaseIconEquality ==
  detector.pc = "returned" =>
    LET a == detector.ctype1
        b == detector.ctype2
        same == Val(detector.returned)
    IN  /\ (IsDlc(a) /\ IsDlc(b)) => (same <=> a \div 100 = b \div 100)
        /\ (~IsDlc(a) /\ ~IsDlc(b)) => (same <=> a \div 1000 = b \div 1000)
        /\ (a = 53580 /\ b = 53581) => same
        /\ (a = 53580 /\ b = 53590) => same
        /\ (a = 53580 /\ b = 50102) => ~same
        /\ (a = 34001 /\ b = 34002) => same
        /\ (a = 34001 /\ b = 38000) => ~same

\* two DLC codes that agree after division by 100 and differ in the tens
\* were compared and found to share their base icon
C24_Witness ==
  /\ detector.pc = "returned"
  /\ detector.ctype1 = 53580 /\ detector.ctype2 = 53590
  /\ Val(detector.returned) = TRUE

----------------------------------------------------------------------------
(* MapDetector._match_full_map (detector/map_detector.py 319-346).  The    *)
(* image is 100 x 100; a radius is counted in half pixels, so the expected *)
(* radius 42.5 is 85 and the error is in quarter pixels squared.           *)

MaxThresholds == 2

MaxCircles == 2

\* img.shape[0] * 0.425, doubled
ExpectedRadius == 85

\* radii HoughCircles can report between minRadius 40 and maxRadius 50
Radii == { 81, 85, 90 }

\* what one HoughCircles call returns: None, or an array of one row of
\* circles, each given by its radius
HoughResults ==
  { None } \cup
  { Some(row) : row \in UNION { [1..n -> Radii] : n \in 1..MaxCircles } }

\* the results of the calls, one per entry of full_map_hough_circle_thres
HoughRuns == UNION { [1..n -> HoughResults] : n \in 0..MaxThresholds }

\* line 337: circles.extend(res) iterates over the first axis of the array,
\* whose only element is the row of all circles of this call
Extend(circles, res) == Append(circles, Val(res))

\* the largest element of a non-empty list
RECURSIVE MaxOf(_)
MaxOf(row) ==
  IF Len(row) = 1 THEN row[1]
  ELSE LET m == MaxOf(Tail(row))
       IN  IF row[1] >= m THEN row[1] ELSE m

\* lines 338-345; an infinite error is None
FullMapError(circles) ==
  IF circles = <<>> THEN None
  ELSE LET cr == MaxOf(circles[1])
       IN  Some((cr - ExpectedRadius) * (cr - ExpectedRadius))

\* a call of _match_full_map before its loop over the thresholds
InitFullMap ==
  /\ widget = Constructed.widget
  /\ window = Constructed.window
  /\ last = "init"
  /\ app = AppRunning
  /\ ci = CiIdle
  /\ \E runs \in HoughRuns :
       detector = [ pc |-> "thresholds", runs |-> runs, idx |-> 1,
                    circles |-> <<>>, error |-> None ]

\* lines 325-337 for a threshold at which circles are found
HoughFinds ==
  /\ detector.pc = "thresholds"
  /\ detector.idx <= Len(detector.runs)
  /\ ~IsNone(detector.runs[detector.idx])
  /\ detector' = [detector EXCEPT
                    !.idx = @ + 1,
                    !.circles = Extend(@, detector.runs[detector.idx])]
  /\ UNCHANGED <<widget, window, last, app, ci>>

\* lines 325-336 for a threshold at which HoughCircles returns None
HoughFindsNone ==
  /\ detector.pc = "thresholds"
  /\ detector.idx <= Len(detector.runs)
  /\ IsNone(detector.runs[detector.idx])
  /\ detector' = [detector EXCEPT !.idx = @ + 1]
  /\ UNCHANGED <<widget, window, last, app, ci>>

\* lines 338-346
ReturnError ==
  /\ detector.pc = "thresholds"
  /\ detector.idx > Len(detector.runs)
  /\ detector' = [detector EXCEPT
                    !.pc = "returned",
                    !.error = FullMapError(detector.circles)]
  /\ UNCHANGED <<widget, window, last, app, ci>>

NextFullMap ==
  \/ HoughFinds
  \/ HoughFindsNone
  \/ ReturnError

SpecFullMap == InitFullMap /\ [][NextFullMap]_vars

\* the radii of all circles detected at any threshold
AllRadii ==
  UNION { { Val(detector.runs[t])[c] : c \in 1..Len(Val(detector.runs[t])) }
          : t \in { u \in 1..Len(detector.runs) :
                      ~IsNone(detector.runs[u]) } }

\* C25: the error returned is the squared deviation from 42.5 of the largest
\* radius among all circles detected at any threshold, and is infinite only
\* when no threshold yields a circle
C25_LargestCircleOfAllThresholds ==
  detector.pc = "returned" =>
    IF AllRadii = {}
      THEN IsNone(detector.error)
      ELSE LET largest == CHOOSE r \in AllRadii : \A q \in AllRadii : q <= r
           IN  detector.error =
                 Some((largest - ExpectedRadius) * (largest - ExpectedRadius))

----------------------------------------------------------------------------
(* Further claims about the widget, under SpecPaging and Spec *)

\* C26: whenever overlay_images is not None it is non-empty and
\* 0 <= map_pattern_idx < len(overlay_images)
C26_PageIndexInRange ==
  ~IsNone(widget.overlay_images) =>
    /\ Len(Val(widget.overlay_images)) > 0
    /\ ~IsNone(widget.map_pattern_idx)
    /\ 0 <= Val(widget.map_pattern_idx)
    /\ Val(widget.map_pattern_idx) < Len(Val(widget.overlay_images))

\* last_overlay_image has just wrapped from the first page to the last
C26_Witness ==
  /\ last = "last_overlay_image"
  /\ widget.visible
  /\ ~IsNone(widget.overlay_images)
  /\ Len(Val(widget.overlay_images)) = MaxImages
  /\ widget.map_pattern_idx = Some(MaxImages - 1)

\* the numbers of paging requests in a row that are looked at
Requests == 1..(MaxImages + 1)

\* C27: next_overlay_image and last_overlay_image change nothing when the
\* visible flag is false or there are no overlay images; next_crystal_layout
\* and last_crystal_layout change nothing when the visible flag is false or
\* the crystal layout is hidden; and so any number of paging requests on an
\* invisible overlay leaves the widget, its page indices included, as it was
C27_PagingGated ==
  /\ (~widget.visible \/ IsNone(widget.overlay_images)) =>
       /\ next_overlay_image(widget) = widget
       /\ last_overlay_image(widget) = widget
  /\ (~widget.visible \/ IsNone(widget.crystal_layout_idx)) =>
       /\ next_crystal_layout(widget) = widget
       /\ last_crystal_layout(widget) = widget
  /\ ~widget.visible =>
       \A k \in Requests :
         \A op \in {"next_overlay_image", "last_overlay_image",
                    "next_crystal_layout", "last_crystal_layout"} :
           Times(op, widget, k) = widget

\* next_overlay_image was requested on an invisible overlay that has several
\* images and shows a crystal layout
C27_Witness ==
  /\ last = "next_overlay_image"
  /\ ~widget.visible
  /\ ~IsNone(widget.overlay_images)
  /\ Len(Val(widget.overlay_images)) = MaxImages
  /\ ~IsNone(widget.crystal_layout_idx)

\* C28: a patch that carries x and whose region's top-left lies in no known
\* screen makes the conversion raise, and update_ui_state then changes
\* nothing: the widget's fields and the window are as before
C28_RejectedPatchChangesNothing ==
  \A p \in Patches :
    (~IsNone(p.x) /\ \A i \in 1..Len(Screens) :
                        ~OnScreen(Region(p), Screens[i])) =>
      LET r == Applied(p)
      IN  /\ r.raised
          /\ r.widget = widget
          /\ r.window = window

\* a patch has just been rejected by a widget that has images, a target
\* opacity and a crystal layout which a patch could have changed
C28_Witness ==
  /\ last = "rejected"
  /\ ~IsNone(widget.overlay_images)
  /\ widget.map_pattern_idx = Some(1)
  /\ widget.target_opacity = OpacityHalf
  /\ ~IsNone(widget.crystal_layout_idx)

----------------------------------------------------------------------------
(* The version script used as a round trip: update_pyproject_version, then *)
(* read_pyproject_version, then a run of main with --check on the same     *)
(* file (scripts/ci_version.py 80-139 and 171-186).                        *)

MaxRoundTripLines == 3

\* the files of at most MaxRoundTripLines different lines
RoundTripLineLists ==
  { lines \in FileLineLists : Len(lines) <= MaxRoundTripLines }

\* version strings without a double quote: plain ones, the empty one, and
\* two that hold a line-break character
RoundTripVersions ==
  { <<"1">>, <<"3">>, <<"1", "r", "c", "1">>, <<>>, <<"1", "LF", "2">>, <<"1", "CR">> }

\* tags given to the --check run
RoundTripTags ==
  { <<"v", "1">>, <<"v", "2">>, <<"v", "3">>, <<"v", "1", "-", "r", "c", ".", "1">> }

InitRoundTrip ==
  /\ widget = Constructed.widget
  /\ window = Constructed.window
  /\ last = "init"
  /\ app = AppRunning
  /\ detector = DetectorIdle
  /\ \E lines \in RoundTripLineLists, terminator \in LineSeparators,
        final \in BOOLEAN, v \in RoundTripVersions,
        linesep \in LineSeparators :
       ci = [ pc |-> "file",
              file |-> FileBytes(lines, terminator, final),
              v |-> v,
              linesep |-> linesep,
              update |-> None,
              read |-> None,
              check |-> None ]

\* update_pyproject_version(file, v)
UpdateOnce ==
  /\ ci.pc = "file"
  /\ LET u == update_pyproject_version(ci.file, ci.v, ci.linesep)
     IN  ci' = [ci EXCEPT !.pc = "updated", !.file = u.bytes,
                          !.update = Some(u)]
  /\ UNCHANGED <<widget, window, last, app, detector>>

\* read_pyproject_version(file)
ReadBack ==
  /\ ci.pc = "updated"
  /\ ci' = [ci EXCEPT !.pc = "read",
                      !.read = Some(read_pyproject_version(ci.file))]
  /\ UNCHANGED <<widget, window, last, app, detector>>

\* main with --check and a tag, on the file as it is now
CheckBack ==
  /\ ci.pc = "read"
  /\ \E tag \in RoundTripTags :
       ci' = [ci EXCEPT
                !.pc = "checked",
                !.check = Some(main([ tag |-> tag, check |-> TRUE,
                                      set_github_env |-> FALSE,
                                      github_env |-> FALSE,
                                      file |-> ci.file,
                                      linesep |-> ci.linesep ]))]
  /\ UNCHANGED <<widget, window, last, app, detector>>

NextRoundTrip ==
  \/ UpdateOnce
  \/ ReadBack
  \/ CheckBack

SpecRoundTrip == InitRoundTrip /\ [][NextRoundTrip]_vars

\* update_pyproject_version returned, changed or unchanged
UpdateReturned == ~IsNone(ci.update) /\ ~Val(ci.update).raised

\* the line update_pyproject_version takes for the current version, and the
\* line read_pyproject_version takes, 0 for none
UpdateSelects(bytes) ==
  ScanForVersion(splitlines_keepends(read_text(bytes)), 1, FALSE)

ReadSelects(bytes) == ScanForVersion(splitlines(read_text(bytes)), 1, FALSE)

\* what C30 says of a state, for the versions in allowed
RoundTripHolds(allowed) ==
  /\ (ci.pc \in {"read", "checked"} /\ UpdateReturned /\ ci.v \in allowed) =>
       /\ ~Val(ci.read).raised
       /\ Val(ci.read).value = ci.v
  /\ (ci.pc = "checked" /\ UpdateReturned /\ ci.v \in allowed
        /\ Val(ci.check).parsed.ok
        /\ Val(ci.check).parsed.version = ci.v) =>
       Val(ci.check).status = "exit 0"
  /\ UpdateSelects(ci.file) = ReadSelects(ci.file)
  /\ UpdateSelects(ci.file) # 0 =>
       Val(VersionMatch(rstrip(
             splitlines_keepends(read_text(ci.file))[UpdateSelects(ci.file)],
             LineEndings))).value
         = read_pyproject_version(ci.file).value

HasLineBreak(v) == Contains(v, "LF") \/ Contains(v, "CR")

\* C30 as stated: for any version string v without a double quote, after
\* update-version(file, v) returns, read-version(file) returns v and a check
\* run with a tag that derives v exits 0; both select the same line
C30_Original == RoundTripHolds({ v \in RoundTripVersions : ~Contains(v, "\"") })

\* C30: for any version string v without a double quote and without a
\* line-break character, after update-version(file, v) returns (changed or
\* unchanged), read-version(file) returns exactly v and a check-mode run with
\* a tag that derives v exits 0; read-version and update-version select the
\* same line as the current version
C30_RoundTrip ==
  RoundTripHolds({ v \in RoundTripVersions :
                     ~Contains(v, "\"") /\ ~HasLineBreak(v) })

\* a file whose version was changed to 1rc1 was read back and then checked
\* with the tag v1-rc.1
C30_Witness ==
  /\ ci.pc = "checked"
  /\ ci.v = <<"1", "r", "c", "1">>
  /\ Val(ci.update).changed
  /\ Val(ci.read).value = <<"1", "r", "c", "1">>
  /\ Val(ci.check).parsed.version = <<"1", "r", "c", "1">>
  /\ Val(ci.check).status = "exit 0"

====
